---- MODULE Spec2Model ----
(***************************************************************************)
(* A model of the Mandarin Twitter bot.  Spec is the Tweet composer,       *)
(* generate_tweet_body of main.py, which builds the body of a Tweet from   *)
(* the current dictionary entry and up to three previously posted Tweets.  *)
(* SpecMain is main() run again and again against the UnprocessedWords and *)
(* Tweets tables, the earliest_tweet_date setting and the platform, with   *)
(* get_previous_tweets and the composer called as main() calls them.       *)
(* SpecRandom is one call of get_tweets_on_random_date, a query a step,    *)
(* and SpecLambda is lambda_handler of lambda_function.py with its tries.  *)
(*                                                                         *)
(* Python strings are TLA+ strings (sequences of characters): Len is       *)
(* len(), \o is concatenation and SubSeq is slicing.  SANY reads ASCII     *)
(* only, so a Chinese character is written "Z" and the pinyin "nǐhǎo" is   *)
(* written "nihao"; the code never inspects a character, it only counts    *)
(* code points, and the stand-ins have the same number of them.            *)
(***************************************************************************)
EXTENDS Integers, Sequences, FiniteSets, TLC

\* constants.py
TWEET_MAX_CHARS == 280
TWEET_URL_LENGTH == 23

\* The longest list of definitions the bounded inputs contain.
MaxDefs == 3

-----------------------------------------------------------------------------
(* Python values and built-ins used by the composer. *)

\* "c" * n, computed by halving n.
RECURSIVE Rep(_, _)
Rep(c, n) ==
    IF n <= 0 THEN ""
    ELSE IF n % 2 = 0 THEN LET half == Rep(c, n \div 2) IN half \o half
    ELSE c \o Rep(c, n - 1)

\* None, and a dict as its set of <<key, value>> items.
None == [type |-> "NoneType"]

Dict(items) == [type |-> "dict", items |-> items]

\* bool(value): None and the empty dict are falsy.
Truthy(value) == value.type = "dict" /\ value.items # {}

\* key in dict
HasKey(dict, key) == \E kv \in dict.items : kv[1] = key

\* dict[key]
Get(dict, key) == (CHOOSE kv \in dict.items : kv[1] = key)[2]

\* The characters str.strip() removes.
Whitespace == {" ", "\t", "\n", "\r", "\f"}

RECURSIVE LStrip(_)
LStrip(s) ==
    IF Len(s) > 0 /\ SubSeq(s, 1, 1) \in Whitespace
    THEN LStrip(SubSeq(s, 2, Len(s)))
    ELSE s

RECURSIVE RStrip(_)
RStrip(s) ==
    IF Len(s) > 0 /\ SubSeq(s, Len(s), Len(s)) \in Whitespace
    THEN RStrip(SubSeq(s, 1, Len(s) - 1))
    ELSE s

\* s.strip()
Strip(s) == RStrip(LStrip(s))

\* "".join(entries)
RECURSIVE Join(_)
Join(entries) ==
    IF entries = <<>> THEN "" ELSE Head(entries) \o Join(Tail(entries))

\* t in s, for strings
Contains(s, t) ==
    \E k \in 1..(Len(s) - Len(t) + 1) : SubSeq(s, k, k + Len(t) - 1) = t

-----------------------------------------------------------------------------
(* generate_tweet_body, block by block.  The locals of a call are a record *)
(* l; the arguments are a record p with the fields simplified, pinyin and  *)
(* definitions of mdbg_parser and the namedtuple previous_tweets.          *)

TweetEntry(entry, char_count) == [entry |-> entry, char_count |-> char_count]

labels == <<"Last Week", "Last Month", "Random">>

\* if not tweet: continue / if "word" not in tweet or "url" not in tweet
IsUsable(tweet) ==
    /\ Truthy(tweet)
    /\ HasKey(tweet, "word")
    /\ HasKey(tweet, "url")

\* entry = f"\n{label}: {tweet['word']} ({tweet['url']})"
PreviousEntry(label, tweet) ==
    "\n" \o label \o ": " \o Get(tweet, "word")
         \o " (" \o Get(tweet, "url") \o ")"

\* The count with the URL at its literal length.
PreviousCharCount_RawUrl(entry, tweet) ==
    Len(entry) + Len(Get(tweet, "word"))

\* char_count of a previous entry: the word counts twice, the URL counts
\* TWEET_URL_LENGTH.
PreviousCharCount(entry, tweet) ==
    Len(entry) + Len(Get(tweet, "word")) - Len(Get(tweet, "url"))
        + TWEET_URL_LENGTH

\* The loop body without the test for the keys, reading a missing "word" or
\* "url" as the empty string.
AddPrevious_Lenient(tweet_entries, label, tweet) ==
    IF ~Truthy(tweet)
    THEN tweet_entries
    ELSE LET word == IF HasKey(tweet, "word") THEN Get(tweet, "word") ELSE ""
             url == IF HasKey(tweet, "url") THEN Get(tweet, "url") ELSE ""
             entry == "\n" \o label \o ": " \o word \o " (" \o url \o ")"
         IN  (label :> TweetEntry(entry, Len(entry) + Len(word) - Len(url)
                                             + TWEET_URL_LENGTH))
                 @@ tweet_entries

\* One iteration of `for label, tweet in previous_tweets_and_labels`.
AddPrevious(tweet_entries, label, tweet) ==
    IF ~IsUsable(tweet)
    THEN tweet_entries
    ELSE LET entry == PreviousEntry(label, tweet)
         IN  (label :> TweetEntry(entry, PreviousCharCount(entry, tweet)))
                 @@ tweet_entries

\* The whole for loop over (Last Week, Last Month, Random).
ComputePreviousEntries(tweet_entries, previous_tweets) ==
    AddPrevious(
        AddPrevious(
            AddPrevious(tweet_entries, "Last Week", previous_tweets.last_week),
            "Last Month", previous_tweets.last_month),
        "Random", previous_tweets.random)

\* Lines 145-163.
BuildPreviousEntries(p, l) ==
    [l EXCEPT !.tweet_entries = ComputePreviousEntries(@, p.previous_tweets),
              !.pc = "minimal"]

\* entry = f"{mdbg_parser.simplified} ({mdbg_parser.pinyin})"
MinimalEntryText(p) == p.simplified \o " (" \o p.pinyin \o ")"

\* char_count = len(entry) + len(mdbg_parser.simplified)
MinimalCharCount(p) == Len(MinimalEntryText(p)) + Len(p.simplified)

\* The test with >= in place of >: an entry that counts exactly
\* TWEET_MAX_CHARS is refused.
ExceedsMax_Inclusive(char_count) == char_count >= TWEET_MAX_CHARS

\* if char_count > TWEET_MAX_CHARS: raise ValueError
ExceedsMax(char_count) == char_count > TWEET_MAX_CHARS

\* Lines 165-171.
MinimalEntry(p, l) ==
    LET entry == MinimalEntryText(p)
        char_count == MinimalCharCount(p)
    IN  IF ExceedsMax(char_count)
        THEN [l EXCEPT !.entry = entry, !.char_count = char_count,
                       !.pc = "raised"]
        ELSE [l EXCEPT !.entry = entry, !.char_count = char_count,
                       !.tweet_entries =
                           ("Now" :> TweetEntry(entry, char_count)) @@ @,
                       !.pc = "first_init"]

\* Lines 175-177.
StartFirstPass(p, l) ==
    [l EXCEPT !.entry = l.tweet_entries["Now"].entry \o ": ",
              !.char_count = l.tweet_entries["Now"].char_count + 2,
              !.definition_index = 0,
              !.pc = "first_scan"]

\* The test with < in place of <=: a definition that exactly fills the Tweet
\* is passed over.
FitsFirstPass_Strict(char_count, definition) ==
    char_count + Len(definition) < TWEET_MAX_CHARS

\* if char_count + len(definition) <= TWEET_MAX_CHARS
FitsFirstPass(char_count, definition) ==
    char_count + Len(definition) <= TWEET_MAX_CHARS

\* Lines 178-182, one test of the while condition and one iteration.
\* Python indexes from 0, TLA+ from 1.
ScanDefinition(p, l) ==
    IF l.definition_index < Len(p.definitions)
    THEN IF FitsFirstPass(l.char_count,
                          p.definitions[l.definition_index + 1])
         THEN [l EXCEPT !.pc = "first_choose"]
         ELSE [l EXCEPT !.definition_index = @ + 1]
    ELSE [l EXCEPT !.pc = "first_choose"]

\* Lines 183-190 without entry[:-2]: the ": " stays when no definition is
\* chosen.
ChooseDefinition_KeepDelimiter(p, l) ==
    LET chosen ==
            IF l.definition_index # Len(p.definitions)
            THEN LET addition == p.definitions[l.definition_index + 1]
                 IN  TweetEntry(l.entry \o addition,
                                l.char_count + Len(addition))
            ELSE TweetEntry(l.entry, l.char_count - 2)
    IN  [l EXCEPT !.entry = chosen.entry,
                  !.char_count = chosen.char_count,
                  !.tweet_entries = ("Now" :> chosen) @@ @,
                  !.pc = "newline"]

\* Lines 183-190.
ChooseDefinition(p, l) ==
    LET chosen ==
            IF l.definition_index # Len(p.definitions)
            THEN LET addition == p.definitions[l.definition_index + 1]
                 IN  TweetEntry(l.entry \o addition,
                                l.char_count + Len(addition))
            ELSE TweetEntry(SubSeq(l.entry, 1, Len(l.entry) - 2),
                            l.char_count - 2)
    IN  [l EXCEPT !.entry = chosen.entry,
                  !.char_count = chosen.char_count,
                  !.tweet_entries = ("Now" :> chosen) @@ @,
                  !.pc = "newline"]

\* The test with > in place of >=: an entry that counts 279 is given its
\* newline.
NoRoomForNewline_Exceeds(char_count) == char_count + 1 > TWEET_MAX_CHARS

\* if char_count + 1 >= TWEET_MAX_CHARS: return entry
NoRoomForNewline(char_count) == char_count + 1 >= TWEET_MAX_CHARS

\* Lines 192-200.
AddNewline(p, l) ==
    LET entry == l.tweet_entries["Now"].entry
        char_count == l.tweet_entries["Now"].char_count
    IN  IF NoRoomForNewline(char_count)
        THEN [l EXCEPT !.entry = entry, !.char_count = char_count,
                       !.body = entry, !.pc = "returned"]
        ELSE [l EXCEPT !.entry = entry \o "\n",
                       !.char_count = char_count + 1,
                       !.tweet_entries =
                           ("Now" :> TweetEntry(entry \o "\n", char_count + 1))
                               @@ @,
                       !.pc = "previous"]

\* Lines 202-218: the previous entries are computed a second time.
RecomputePreviousEntries(p, l) ==
    [l EXCEPT !.tweet_entries = ComputePreviousEntries(@, p.previous_tweets),
              !.pc = "include_init"]

\* What a top-up of the definitions other than the chosen one, from the
\* k-th on, takes from a budget.
RECURSIVE TopUpCharCount(_, _, _, _)
TopUpCharCount(defs, chosen, k, budget) ==
    IF k > Len(defs) THEN 0
    ELSE IF k - 1 # chosen /\ Len(defs[k]) + 2 <= budget
         THEN Len(defs[k]) + 2
                  + TopUpCharCount(defs, chosen, k + 1,
                                   budget - (Len(defs[k]) + 2))
         ELSE TopUpCharCount(defs, chosen, k + 1, budget)

\* Lines 220-227 with the room for further definitions taken from the
\* budget before the previous entries are admitted.
StartInclude_DefinitionsFirst(p, l) ==
    LET now == l.tweet_entries["Now"]
        budget == TWEET_MAX_CHARS - now.char_count
    IN  [l EXCEPT !.included_entries = <<now.entry>>,
                  !.remaining_chars =
                      budget - TopUpCharCount(p.definitions,
                                              l.definition_index, 1, budget),
                  !.i = 0,
                  !.pc = "include_loop"]

\* Lines 220-227 with the current entry not charged: the budget starts at
\* TWEET_MAX_CHARS.
StartInclude_FullBudget(p, l) ==
    LET now == l.tweet_entries["Now"]
    IN  [l EXCEPT !.included_entries = <<now.entry>>,
                  !.remaining_chars = TWEET_MAX_CHARS,
                  !.i = 0,
                  !.pc = "include_loop"]

\* Lines 220-227.
StartInclude(p, l) ==
    LET now == l.tweet_entries["Now"]
    IN  [l EXCEPT !.included_entries = <<now.entry>>,
                  !.remaining_chars = TWEET_MAX_CHARS - now.char_count,
                  !.i = 0,
                  !.pc = "include_loop"]

\* The test off by one: an addition may exceed the budget by one character.
FitsRemaining_OffByOne(remaining_chars, char_count) ==
    remaining_chars - char_count >= -1

\* The test with > in place of >=: an addition that exactly fills the
\* budget is refused.
FitsRemaining_Strict(remaining_chars, char_count) ==
    remaining_chars - char_count > 0

\* The test left out: every addition is taken.
FitsRemaining_Always(remaining_chars, char_count) == TRUE

\* if remaining_chars - previous.char_count >= 0
FitsRemaining(remaining_chars, char_count) ==
    remaining_chars - char_count >= 0

\* Lines 228-235 with the budget charged for a previous entry that is not
\* included.
IncludePrevious_ChargeSkipped(p, l) ==
    IF l.i < Len(labels) /\ l.remaining_chars >= 0
    THEN LET label == labels[l.i + 1]
         IN  IF label \notin DOMAIN l.tweet_entries
             THEN [l EXCEPT !.i = @ + 1]
             ELSE IF FitsRemaining(l.remaining_chars,
                                   l.tweet_entries[label].char_count)
             THEN [l EXCEPT
                     !.included_entries =
                         Append(@, l.tweet_entries[label].entry),
                     !.remaining_chars =
                         @ - l.tweet_entries[label].char_count,
                     !.i = @ + 1]
             ELSE [l EXCEPT
                     !.remaining_chars =
                         @ - l.tweet_entries[label].char_count,
                     !.i = @ + 1]
    ELSE [l EXCEPT !.pc = "topup_init"]

\* Lines 228-235 with a break at the first previous entry that does not
\* fit.
IncludePrevious_StopAtMiss(p, l) ==
    IF l.i < Len(labels) /\ l.remaining_chars >= 0
    THEN LET label == labels[l.i + 1]
         IN  IF label \notin DOMAIN l.tweet_entries
             THEN [l EXCEPT !.i = @ + 1]
             ELSE IF FitsRemaining(l.remaining_chars,
                                   l.tweet_entries[label].char_count)
             THEN [l EXCEPT
                     !.included_entries =
                         Append(@, l.tweet_entries[label].entry),
                     !.remaining_chars =
                         @ - l.tweet_entries[label].char_count,
                     !.i = @ + 1]
             ELSE [l EXCEPT !.pc = "topup_init"]
    ELSE [l EXCEPT !.pc = "topup_init"]

\* Lines 228-235, one test of the while condition and one iteration.
IncludePrevious(p, l) ==
    IF l.i < Len(labels) /\ l.remaining_chars >= 0
    THEN LET label == labels[l.i + 1]
         IN  IF /\ label \in DOMAIN l.tweet_entries
                /\ FitsRemaining(l.remaining_chars,
                                 l.tweet_entries[label].char_count)
             THEN [l EXCEPT
                     !.included_entries =
                         Append(@, l.tweet_entries[label].entry),
                     !.remaining_chars =
                         @ - l.tweet_entries[label].char_count,
                     !.i = @ + 1]
             ELSE [l EXCEPT !.i = @ + 1]
    ELSE [l EXCEPT !.pc = "topup_init"]

\* Lines 237-239.
StartTopUp(p, l) ==
    [l EXCEPT !.entry = l.tweet_entries["Now"].entry,
              !.i = 0,
              !.pc = "topup_loop"]

\* if i != definition_index
IsOtherDefinition(i, definition_index) == i # definition_index

\* addition_char_count = len(definition) + 2
AdditionCharCount(definition) == Len(definition) + 2

\* entry = f"{entry[:-1]}; {definition}\n"
AppendDefinition(entry, definition) ==
    SubSeq(entry, 1, Len(entry) - 1) \o "; " \o definition \o "\n"

\* Lines 240-247 with a break at the first definition that does not fit.
TopUpDefinition_StopAtMiss(p, l) ==
    IF l.i < Len(p.definitions)
    THEN LET definition == p.definitions[l.i + 1]
         IN  IF ~IsOtherDefinition(l.i, l.definition_index)
             THEN [l EXCEPT !.i = @ + 1]
             ELSE IF FitsRemaining(l.remaining_chars,
                                   AdditionCharCount(definition))
             THEN [l EXCEPT
                     !.entry = AppendDefinition(@, definition),
                     !.remaining_chars = @ - AdditionCharCount(definition),
                     !.i = @ + 1]
             ELSE [l EXCEPT !.pc = "finish"]
    ELSE [l EXCEPT !.pc = "finish"]

\* Lines 240-247, one test of the while condition and one iteration.
TopUpDefinition(p, l) ==
    IF l.i < Len(p.definitions)
    THEN LET definition == p.definitions[l.i + 1]
         IN  IF /\ IsOtherDefinition(l.i, l.definition_index)
                /\ FitsRemaining(l.remaining_chars,
                                 AdditionCharCount(definition))
             THEN [l EXCEPT
                     !.entry = AppendDefinition(@, definition),
                     !.remaining_chars = @ - AdditionCharCount(definition),
                     !.i = @ + 1]
             ELSE [l EXCEPT !.i = @ + 1]
    ELSE [l EXCEPT !.pc = "finish"]

\* return "".join(included_entries).strip()
FinalBody(included_entries) == Strip(Join(included_entries))

\* Lines 248-250.
Finish(p, l) ==
    LET included == [l.included_entries EXCEPT ![1] = l.entry]
    IN  [l EXCEPT !.included_entries = included,
                  !.body = FinalBody(included),
                  !.pc = "returned"]

\* The arguments after a block has run.  A mutation of the call: choosing a
\* definition pops it from mdbg_parser.definitions.
ArgsAfter_PopChosen(p, l) ==
    IF l.pc = "first_choose" /\ l.definition_index < Len(p.definitions)
    THEN [p EXCEPT !.definitions =
            [n \in 1..(Len(p.definitions) - 1) |->
                IF n < l.definition_index + 1
                THEN p.definitions[n] ELSE p.definitions[n + 1]]]
    ELSE p

\* Lines 123-250 assign to no attribute of mdbg_parser and to no item of
\* previous_tweets or of its dictionaries, and call no mutating method on
\* them: mdbg_parser.definitions is only indexed and measured, the
\* dictionaries are only read with "in" and [], and the strings are
\* immutable.  Every block leaves the arguments as they are.
ArgsAfter(p, l) == p

\* What a call hands to its caller: the body, or the ValueError.
Result(l) == [pc |-> l.pc, body |-> l.body]

\* The locals when the call starts: nothing is bound yet.
InitLocals ==
    [pc |-> "start",
     tweet_entries |-> <<>>,
     entry |-> "",
     char_count |-> 0,
     definition_index |-> 0,
     included_entries |-> <<>>,
     remaining_chars |-> 0,
     i |-> 0,
     body |-> ""]

Final == {"returned", "raised"}

\* The block of generate_tweet_body the call is at.
StepOf(p, l) ==
    CASE l.pc = "start" -> BuildPreviousEntries(p, l)
      [] l.pc = "minimal" -> MinimalEntry(p, l)
      [] l.pc = "first_init" -> StartFirstPass(p, l)
      [] l.pc = "first_scan" -> ScanDefinition(p, l)
      [] l.pc = "first_choose" -> ChooseDefinition(p, l)
      [] l.pc = "newline" -> AddNewline(p, l)
      [] l.pc = "previous" -> RecomputePreviousEntries(p, l)
      [] l.pc = "include_init" -> StartInclude(p, l)
      [] l.pc = "include_loop" -> IncludePrevious(p, l)
      [] l.pc = "topup_init" -> StartTopUp(p, l)
      [] l.pc = "topup_loop" -> TopUpDefinition(p, l)
      [] l.pc = "finish" -> Finish(p, l)

RECURSIVE RunFrom(_, _)
RunFrom(p, l) == IF l.pc \in Final THEN l ELSE RunFrom(p, StepOf(p, l))

\* generate_tweet_body(mdbg_parser, previous_tweets) run to its end: the
\* final locals, with pc = "returned" and the body, or pc = "raised".
generate_tweet_body(p) == RunFrom(p, InitLocals)

-----------------------------------------------------------------------------
(* The state: the arguments of one call and its locals. *)

VARIABLES simplified, pinyin, definitions, previous_tweets,
          pc, tweet_entries, entry, char_count, definition_index,
          included_entries, remaining_chars, i, body,
          calls, first_result,
          today, unprocessed_words, tweets_table, earliest_tweet_date,
          statuses, main_pc, num_tweets_today, date_entry, unprocessed_word,
          tweet_id_str, tweet, output, raised, lookups, before, runs,
          created,
          random_pc, random_dates, random_date, queried, random_tweets,
          handler_pc, handler_num_tries, success, outcomes, status_code

args == <<simplified, pinyin, definitions, previous_tweets>>

locals == <<pc, tweet_entries, entry, char_count, definition_index,
            included_entries, remaining_chars, i, body>>

\* The calls made with these arguments so far, and what the first of them
\* handed back once a second one has started.
history == <<calls, first_result>>

\* The world main() runs in: the date, the UnprocessedWords and Tweets
\* tables, the earliest_tweet_date setting and the Tweets on the platform.
world ==
    <<today, unprocessed_words, tweets_table, earliest_tweet_date, statuses>>

\* The run of main() in progress: where it is, its locals other than
\* mdbg_parser, previous_tweets and body (the variables above), what it
\* wrote to stdout or stderr, the exception that ended it, the calls of
\* get_tweets_on_date that get_previous_tweets made, the world when the
\* run started and the number of runs started.
run == <<main_pc, num_tweets_today, date_entry, unprocessed_word,
         tweet_id_str, tweet, output, raised, lookups, before>>

\* get_tweets_on_random_date: the sampled dates, the position in them, the
\* dates queried so far and the value returned.
random_call == <<random_pc, random_dates, random_date, queried, random_tweets>>

\* lambda_handler: the attempts made, how each of them ended, the response.
handler == <<handler_pc, handler_num_tries, success, outcomes, status_code>>

aux == <<random_call, handler>>

vars == <<args, locals, history, world, run, runs, created, aux>>

Args ==
    [simplified |-> simplified, pinyin |-> pinyin,
     definitions |-> definitions, previous_tweets |-> previous_tweets]

Locals ==
    [pc |-> pc, tweet_entries |-> tweet_entries, entry |-> entry,
     char_count |-> char_count, definition_index |-> definition_index,
     included_entries |-> included_entries,
     remaining_chars |-> remaining_chars, i |-> i, body |-> body]

\* The locals after a block has run.
Bind(l) ==
    /\ pc' = l.pc
    /\ tweet_entries' = l.tweet_entries
    /\ entry' = l.entry
    /\ char_count' = l.char_count
    /\ definition_index' = l.definition_index
    /\ included_entries' = l.included_entries
    /\ remaining_chars' = l.remaining_chars
    /\ i' = l.i
    /\ body' = l.body

\* The arguments after a block has run.
BindArgs(p) ==
    /\ simplified' = p.simplified
    /\ pinyin' = p.pinyin
    /\ definitions' = p.definitions
    /\ previous_tweets' = p.previous_tweets

-----------------------------------------------------------------------------
(* The bounded inputs. *)

\* The URL and the long URL of test_generate_tweet_body.py.
Url == "http://twitter.com/dummy_url"

LongUrl ==
    "https://twitter.com/a/long/url/that/will/get/truncated/when/"
        \o "tweet/is/created"

\* A previous Tweet as get_previous_tweets and the tests build it.
Ref(word, url) == Dict({<<"word", word>>, <<"url", url>>})

PreviousTweets(last_week, last_month, random) ==
    [last_week |-> last_week, last_month |-> last_month, random |-> random]

Parser(s, py, defs) == [simplified |-> s, pinyin |-> py, definitions |-> defs]

\* Words of 2 characters, and of the lengths around the limit: with the
\* pinyin "nihao" the minimal entry of 135 characters counts 278, that of
\* 136 counts 280 and that of 137 counts 282.
Simplifieds == {Rep("Z", n) : n \in {2, 135, 136, 137}}

Pinyins == {"nihao", "a"}

\* Definitions as MDBGParser.run stores them (stripped; "" is what a
\* leading or trailing "/" leaves), short, long and longer than a Tweet.
DefStrings == {"", "hi", Rep("_", 133), Rep("_", TWEET_MAX_CHARS)}

DefLists(n) == UNION {[1..k -> DefStrings] : k \in 0..n}

\* A previous Tweet that is missing or badly formed.
AbsentRefs ==
    {None, Dict({}), Dict({<<"bad", "entry">>}),
     Dict({<<"word", "Z">>}), Dict({<<"url", Url>>})}

\* A previous Tweet with a word and a URL: a one-character word, and the
\* words of 111 and 112 characters of test_overlong_previous_entry.
PresentRefs ==
    {Ref("Z", Url), Ref("Z", LongUrl),
     Ref(Rep("Z", 111), Url), Ref(Rep("Z", 112), Url)}

RefValues == AbsentRefs \cup PresentRefs

\* Every entry, with each previous Tweet missing or short.
EntryInputs ==
    {[simplified |-> s, pinyin |-> py, definitions |-> defs,
      previous_tweets |-> PreviousTweets(lw, lm, r)] :
        s \in Simplifieds, py \in Pinyins, defs \in DefLists(MaxDefs),
        lw \in {None, Ref("Z", Url)}, lm \in {None, Ref("Z", Url)},
        r \in {None, Ref("Z", Url)}}

\* Every combination of previous Tweets, with a short entry.
PreviousInputs ==
    {[simplified |-> "ZZ", pinyin |-> "nihao", definitions |-> defs,
      previous_tweets |-> PreviousTweets(lw, lm, r)] :
        defs \in {<<>>, <<"hi">>, <<"hi", "", "hi">>},
        lw \in RefValues, lm \in RefValues, r \in RefValues}

\* The inputs of test_generate_tweet_body.py.
TestPrevious(ref) == PreviousTweets(ref, ref, ref)

OverlongPrevious111 ==
    [simplified |-> "ZZ", pinyin |-> "nihao", definitions |-> <<"hello">>,
     previous_tweets |-> TestPrevious(Ref(Rep("Z", 111), Url))]

OverlongPrevious112 ==
    [OverlongPrevious111 EXCEPT
        !.previous_tweets.last_week = Ref(Rep("Z", 112), Url)]

OverlongDefinitions ==
    <<Rep("_", TWEET_MAX_CHARS), Rep("-", TWEET_MAX_CHARS),
      Rep(".", TWEET_MAX_CHARS), Rep(",", TWEET_MAX_CHARS)>>

OverlongDefinitionsAll ==
    [simplified |-> "ZZ", pinyin |-> "nihao",
     definitions |-> OverlongDefinitions,
     previous_tweets |-> TestPrevious(Ref("Z", Url))]

OverlongDefinitionsExceptOne ==
    [OverlongDefinitionsAll EXCEPT
        !.definitions = Append(OverlongDefinitions, "hello")]

FurtherDefinitions ==
    [simplified |-> "ZZ", pinyin |-> "nihao",
     definitions |->
        <<"hello", Rep("_", TWEET_MAX_CHARS), Rep("-", TWEET_MAX_CHARS),
          "hi", Rep(".", TWEET_MAX_CHARS), Rep(",", TWEET_MAX_CHARS),
          "hey", Rep("_", TWEET_MAX_CHARS - 147)>>,
     previous_tweets |-> TestPrevious(Ref("Z", Url))]

FurtherDefinitionsNoRandom ==
    [FurtherDefinitions EXCEPT !.previous_tweets.random = Dict({})]

UrlsTruncated ==
    [simplified |-> "ZZ", pinyin |-> "nihao",
     definitions |-> <<"hello", "hi", "hey">>,
     previous_tweets |-> TestPrevious(Ref("Z", LongUrl))]

TestInputs ==
    {OverlongPrevious111, OverlongPrevious112, OverlongDefinitionsAll,
     OverlongDefinitionsExceptOne, FurtherDefinitions,
     FurtherDefinitionsNoRandom, UrlsTruncated}

\* MDBG definitions quote Chinese characters (variants, classifiers): a
\* definition that ends in two of them and fills the Tweet as main.py
\* counts it, a definition of Chinese characters only, and a pinyin field
\* that holds Chinese characters.
WideInputs ==
    {[simplified |-> "ZZ", pinyin |-> "nihao", definitions |-> <<d>>,
      previous_tweets |-> TestPrevious(None)] :
        d \in {Rep("_", 264) \o "ZZ", Rep("Z", 134)}}
    \cup {[simplified |-> "ZZ", pinyin |-> Rep("Z", 138),
           definitions |-> <<"hi">>, previous_tweets |-> TestPrevious(None)]}

\* A word, a pinyin and definitions with no Chinese character in them:
\* clean_words.py asks of a word only that it is not empty.
AsciiInputs ==
    {[simplified |-> "OK", pinyin |-> "ok", definitions |-> defs,
      previous_tweets |-> TestPrevious(None)] :
        defs \in {<<>>, <<"hi">>, <<"hi", "hey">>}}

\* Entries whose first definition brings the count to 276..280, around
\* the room for the newline, with a further definition that is empty or
\* short and a short previous Tweet or none.
LimitInputs ==
    {[simplified |-> "ZZ", pinyin |-> "nihao",
      definitions |-> <<Rep("_", n), further>>,
      previous_tweets |-> PreviousTweets(lw, None, None)] :
        n \in 262..266, further \in {"", "hi"}, lw \in {None, Ref("Z", Url)}}

Inputs ==
    EntryInputs \cup PreviousInputs \cup TestInputs \cup WideInputs
        \cup AsciiInputs \cup LimitInputs

-----------------------------------------------------------------------------
(* The tables, the platform and the helpers of main().  A date is a day    *)
(* number: strftime(DATE_FORMAT) and strptime are one-to-one on dates, and  *)
(* main.py only compares the strings for equality and does day arithmetic   *)
(* on the date objects.                                                      *)

\* constants.py
TWEETS_PER_DAY == 3

\* constants.py, TwitterBotExitCodes
TwitterBotExitCodes ==
    [OK |-> 0, UNHANDLED |-> 1, MAX_TWEETS_EXCEEDED |-> 2,
     NO_WORDS_LEFT |-> 3, BAD_DICTIONARY_RESPONSE |-> 4,
     NO_DICTIONARY_ENTRY |-> 5, TWEET_FAILED |-> 6, DB_FAILED |-> 7]

\* settings.py, read from the configuration file.
TWITTER_USER_USERNAME == "user"

\* The runs of main() a behaviour starts and the days that pass in it.
MaxRuns == 4
MaxDays == 7

\* The day the behaviours start on.
FirstDay == 30

\* DynamoDBTable.TWEETS.value.schema
TweetsSchema ==
    [Id |-> "str", TweetId |-> "str", Date |-> "str", DateEntry |-> "int",
     Word |-> "str"]

\* validate_item_against_schema(schema, item).  Every value of the model
\* has the type its key has in the schema, so the isinstance test of a
\* present key holds; an item fails by its keys.
validate_item_against_schema(schema, item) ==
    /\ Cardinality(DOMAIN schema) = Cardinality(DOMAIN item)
    /\ \A key \in DOMAIN schema : key \in DOMAIN item

\* get_tweets_on_date(d): the items of the Tweets table with that Date.
get_tweets_on_date(table, d) == {item \in table : item.Date = d}

\* get_tweets_on_date(d, date_entry=date_entry): Date and DateEntry are the
\* keys of DateIndex, every item has them.
get_tweets_on_date_entry(table, d, entry_number) ==
    {item \in table : item.Date = d /\ item.DateEntry = entry_number}

\* utils.tweet_url(username, tweet_id)
tweet_url(username, tweet_id) ==
    "https://twitter.com/" \o username \o "/statuses/" \o tweet_id

\* TwitterAPIClient.tweet_exists(tweet_id)
tweet_exists(on_platform, tweet_id) == tweet_id \in on_platform

\* A decimal digit as a string.
Digit(n) == <<"0", "1", "2", "3", "4", "5", "6", "7", "8", "9">>[n + 1]

\* The id_str of the n-th Tweet the platform creates for the runs, and the
\* n-th str(uuid.uuid4()).
NewTweetId(n) == "100" \o Digit(n)

uuid4(n) == "uuid-" \o Digit(n)

\* An item of the Tweets table, as main() and the tests build it.
TweetItem(id, tweet_id, d, entry_number, word) ==
    [Id |-> id, TweetId |-> tweet_id, Date |-> d, DateEntry |-> entry_number,
     Word |-> word]

\* An item of the UnprocessedWords table; main() reads Characters and
\* Pinyin.
Word(characters, py) == [Characters |-> characters, Pinyin |-> py]

\* A Python string that can be None where it is read: the value of a
\* setting.
Str(value) == [type |-> "str", value |-> value]

\* A dictionary with no item: the slot of a previous Tweet that is missing.
EmptyDict == Dict({})

\* The world a run can start in.
\* Nothing stored: a new deployment.
NoHistory == [tweets_table |-> {}, statuses |-> {}, earliest |-> None]

\* TWEETS_PER_DAY Tweets stored for today (test_too_many_tweets_today).
FullDay ==
    [tweets_table |->
        {TweetItem("uuid-a" \o Digit(n), "90" \o Digit(n), FirstDay, n, "Z")
            : n \in 0..(TWEETS_PER_DAY - 1)},
     statuses |-> {"90" \o Digit(n) : n \in 0..(TWEETS_PER_DAY - 1)},
     earliest |-> Str(FirstDay)]

\* Tweets of 7 days ago and of 30 days ago (entries 0 and 1) and of another
\* earlier day (test_get_previous_tweets_output).
PastTweets ==
    [tweets_table |->
        {TweetItem("uuid-b1", "911", FirstDay - 7, 0, "Z"),
         TweetItem("uuid-b2", "912", FirstDay - 30, 0, "ZZ"),
         TweetItem("uuid-b3", "913", FirstDay - 30, 1, "ZZ"),
         TweetItem("uuid-b4", "914", FirstDay - 20, 0, "ZZZ"),
         TweetItem("uuid-b5", "915", FirstDay - 7, 1, "ZZZ")},
     statuses |-> {"911", "912", "913", "914", "915"},
     earliest |-> Str(FirstDay - 30)]

\* The same, with the Tweet of 7 days ago deleted on the platform and the
\* first item of 30 days ago stored without its Word.
DamagedPastTweets ==
    [tweets_table |->
        (PastTweets.tweets_table
            \ {TweetItem("uuid-b2", "912", FirstDay - 30, 0, "ZZ")})
        \cup {[Id |-> "uuid-b2", TweetId |-> "912", Date |-> FirstDay - 30,
               DateEntry |-> 0]},
     statuses |-> PastTweets.statuses \ {"911"},
     earliest |-> Str(FirstDay - 30)]

\* One Tweet posted and stored earlier today, the first of the account.
EarlierToday ==
    [tweets_table |-> {TweetItem("uuid-d0", "930", FirstDay, 0, "Z")},
     statuses |-> {"930"},
     earliest |-> Str(FirstDay)]

Histories == {NoHistory, FullDay, PastTweets, DamagedPastTweets, EarlierToday}

\* The Tweets the platform has created, each with the day of its creation:
\* what the account has posted.  Those of a history are the Tweets its
\* items record.
Created(table) ==
    {[id_str |-> item.TweetId, date |-> item.Date] : item \in table}

\* The words waiting in the UnprocessedWords table: none, or one for every
\* run and one to spare, among them a word too long for a Tweet.
NormalWords ==
    [n \in 1..(MaxRuns + 1) |-> Word(Rep("Z", n + 1), "nihao")]

Queues == {<<>>, NormalWords, <<Word(Rep("Z", 137), "nihao")>> \o NormalWords}

\* What MDBGParser.run() can do: raise MDBGError, return False, or return
\* True with the pinyin (kept, or replaced by that of the dictionary) and
\* the definitions.
DictionaryResponses(py) ==
    {[result |-> "MDBGError"], [result |-> "False"]}
    \cup {[result |-> "True", pinyin |-> py, definitions |-> <<"hello">>],
          [result |-> "True", pinyin |-> "ni hao",
           definitions |-> <<"hello", "hi">>]}

\* No mdbg_parser, previous_tweets or body is bound.
NoArgs ==
    [simplified |-> "", pinyin |-> "", definitions |-> <<>>,
     previous_tweets |-> PreviousTweets(EmptyDict, EmptyDict, EmptyDict)]

NoCall ==
    /\ simplified = NoArgs.simplified
    /\ pinyin = NoArgs.pinyin
    /\ definitions = NoArgs.definitions
    /\ previous_tweets = NoArgs.previous_tweets
    /\ pc = InitLocals.pc
    /\ tweet_entries = InitLocals.tweet_entries
    /\ entry = InitLocals.entry
    /\ char_count = InitLocals.char_count
    /\ definition_index = InitLocals.definition_index
    /\ included_entries = InitLocals.included_entries
    /\ remaining_chars = InitLocals.remaining_chars
    /\ i = InitLocals.i
    /\ body = InitLocals.body
    /\ calls = 1
    /\ first_result = None

\* The locals of main() outside a run.
InitRun ==
    [main_pc |-> "idle",
     num_tweets_today |-> 0,
     date_entry |-> 0,
     unprocessed_word |-> None,
     tweet_id_str |-> "",
     tweet |-> None,
     output |-> "",
     raised |-> None,
     lookups |-> <<>>,
     before |-> None]

NoRun ==
    /\ main_pc = InitRun.main_pc
    /\ num_tweets_today = InitRun.num_tweets_today
    /\ date_entry = InitRun.date_entry
    /\ unprocessed_word = InitRun.unprocessed_word
    /\ tweet_id_str = InitRun.tweet_id_str
    /\ tweet = InitRun.tweet
    /\ output = InitRun.output
    /\ raised = InitRun.raised
    /\ lookups = InitRun.lookups
    /\ before = InitRun.before

\* generate_tweet_body called by a test, outside main().
NoWorld ==
    /\ today = FirstDay
    /\ unprocessed_words = <<>>
    /\ tweets_table = {}
    /\ earliest_tweet_date = None
    /\ statuses = {}
    /\ runs = 0
    /\ created = {}
    /\ NoRun

\* get_tweets_on_random_date and lambda_handler are not running.
NoRandomCall ==
    /\ random_pc = "idle"
    /\ random_dates = <<>>
    /\ random_date = 0
    /\ queried = <<>>
    /\ random_tweets = {}

NoHandler ==
    /\ handler_pc = "idle"
    /\ handler_num_tries = 0
    /\ success = FALSE
    /\ outcomes = <<>>
    /\ status_code = 0

-----------------------------------------------------------------------------
(* The call, one block of the code per action. *)

Init ==
    /\ \E p \in Inputs :
        /\ simplified = p.simplified
        /\ pinyin = p.pinyin
        /\ definitions = p.definitions
        /\ previous_tweets = p.previous_tweets
    /\ pc = InitLocals.pc
    /\ tweet_entries = InitLocals.tweet_entries
    /\ entry = InitLocals.entry
    /\ char_count = InitLocals.char_count
    /\ definition_index = InitLocals.definition_index
    /\ included_entries = InitLocals.included_entries
    /\ remaining_chars = InitLocals.remaining_chars
    /\ i = InitLocals.i
    /\ body = InitLocals.body
    /\ calls = 1
    /\ first_result = None
    /\ NoWorld
    /\ NoRandomCall
    /\ NoHandler

DoBuildPreviousEntries ==
    /\ pc = "start"
    /\ Bind(BuildPreviousEntries(Args, Locals))
    /\ BindArgs(ArgsAfter(Args, Locals))
    /\ UNCHANGED <<history, world, run, runs, created, aux>>

DoMinimalEntry ==
    /\ pc = "minimal"
    /\ Bind(MinimalEntry(Args, Locals))
    /\ BindArgs(ArgsAfter(Args, Locals))
    /\ UNCHANGED <<history, world, run, runs, created, aux>>

DoStartFirstPass ==
    /\ pc = "first_init"
    /\ Bind(StartFirstPass(Args, Locals))
    /\ BindArgs(ArgsAfter(Args, Locals))
    /\ UNCHANGED <<history, world, run, runs, created, aux>>

DoScanDefinition ==
    /\ pc = "first_scan"
    /\ Bind(ScanDefinition(Args, Locals))
    /\ BindArgs(ArgsAfter(Args, Locals))
    /\ UNCHANGED <<history, world, run, runs, created, aux>>

DoChooseDefinition ==
    /\ pc = "first_choose"
    /\ Bind(ChooseDefinition(Args, Locals))
    /\ BindArgs(ArgsAfter(Args, Locals))
    /\ UNCHANGED <<history, world, run, runs, created, aux>>

DoAddNewline ==
    /\ pc = "newline"
    /\ Bind(AddNewline(Args, Locals))
    /\ BindArgs(ArgsAfter(Args, Locals))
    /\ UNCHANGED <<history, world, run, runs, created, aux>>

DoRecomputePreviousEntries ==
    /\ pc = "previous"
    /\ Bind(RecomputePreviousEntries(Args, Locals))
    /\ BindArgs(ArgsAfter(Args, Locals))
    /\ UNCHANGED <<history, world, run, runs, created, aux>>

DoStartInclude ==
    /\ pc = "include_init"
    /\ Bind(StartInclude(Args, Locals))
    /\ BindArgs(ArgsAfter(Args, Locals))
    /\ UNCHANGED <<history, world, run, runs, created, aux>>

DoIncludePrevious ==
    /\ pc = "include_loop"
    /\ Bind(IncludePrevious(Args, Locals))
    /\ BindArgs(ArgsAfter(Args, Locals))
    /\ UNCHANGED <<history, world, run, runs, created, aux>>

DoStartTopUp ==
    /\ pc = "topup_init"
    /\ Bind(StartTopUp(Args, Locals))
    /\ BindArgs(ArgsAfter(Args, Locals))
    /\ UNCHANGED <<history, world, run, runs, created, aux>>

DoTopUpDefinition ==
    /\ pc = "topup_loop"
    /\ Bind(TopUpDefinition(Args, Locals))
    /\ BindArgs(ArgsAfter(Args, Locals))
    /\ UNCHANGED <<history, world, run, runs, created, aux>>

DoFinish ==
    /\ pc = "finish"
    /\ Bind(Finish(Args, Locals))
    /\ BindArgs(ArgsAfter(Args, Locals))
    /\ UNCHANGED <<history, world, run, runs, created, aux>>

\* The caller calls generate_tweet_body a second time with the objects it
\* passed to the first call.
CallAgain ==
    /\ pc \in Final
    /\ calls = 1
    /\ calls' = 2
    /\ first_result' = Result(Locals)
    /\ Bind(InitLocals)
    /\ UNCHANGED <<args, world, run, runs, created, aux>>

Next ==
    \/ DoBuildPreviousEntries
    \/ DoMinimalEntry
    \/ DoStartFirstPass
    \/ DoScanDefinition
    \/ DoChooseDefinition
    \/ DoAddNewline
    \/ DoRecomputePreviousEntries
    \/ DoStartInclude
    \/ DoIncludePrevious
    \/ DoStartTopUp
    \/ DoTopUpDefinition
    \/ DoFinish
    \/ CallAgain

Spec == Init /\ [][Next]_vars

TypeOK ==
    /\ pc \in {"start", "minimal", "first_init", "first_scan",
               "first_choose", "newline", "previous", "include_init",
               "include_loop", "topup_init", "topup_loop", "finish"}
              \cup Final
    /\ definition_index \in 0..Len(definitions)
    /\ i \in 0..(Len(definitions) + Len(labels))

-----------------------------------------------------------------------------
(* main(): one run after another, one block of the code per action. *)

Run ==
    [main_pc |-> main_pc, num_tweets_today |-> num_tweets_today,
     date_entry |-> date_entry, unprocessed_word |-> unprocessed_word,
     tweet_id_str |-> tweet_id_str, tweet |-> tweet, output |-> output,
     raised |-> raised, lookups |-> lookups, before |-> before]

\* The locals of main() after a block has run.
BindRun(r) ==
    /\ main_pc' = r.main_pc
    /\ num_tweets_today' = r.num_tweets_today
    /\ date_entry' = r.date_entry
    /\ unprocessed_word' = r.unprocessed_word
    /\ tweet_id_str' = r.tweet_id_str
    /\ tweet' = r.tweet
    /\ output' = r.output
    /\ raised' = r.raised
    /\ lookups' = r.lookups
    /\ before' = r.before

\* The tables, the setting and the platform as a run finds them.
World ==
    [unprocessed_words |-> unprocessed_words, tweets_table |-> tweets_table,
     earliest_tweet_date |-> earliest_tweet_date, statuses |-> statuses]

\* The run ends: main() returns after writing a message, or an exception
\* leaves it.
Return(r, message) == [r EXCEPT !.main_pc = "done", !.output = message]

Raise(r, exception) ==
    [r EXCEPT !.main_pc = "done", !.raised = [exception |-> exception]]

\* get_earliest_tweet_date(): the Value of the setting, or None.
get_earliest_tweet_date(setting) == setting

\* set_earliest_tweet_date(date_str): put_item overwrites the item of the
\* Settings table named earliest_tweet_date.
set_earliest_tweet_date(setting, date_str) == Str(date_str)

\* The default of num_tries in get_tweets_on_random_date.
num_tries == 5

Min(a, b) == IF a < b THEN a ELSE b

\* get_tweets_on_random_date(date_entry=date_entry): what it can return,
\* with the date that was queried for it (None when it returns []).
\* random_dates_in_range samples min(num_days, num_tries) distinct dates of
\* start..end-1 in a random order and the first sampled date with Tweets
\* wins: any date with Tweets can, and [] is returned when a sample can
\* miss them all.
get_tweets_on_random_date(table, setting, day, entry_number) ==
    LET min_date == get_earliest_tweet_date(setting)
        nothing == {[date |-> None, tweets |-> {}]}
    IN  IF min_date = None THEN nothing
        ELSE LET start == min_date.value
                 end == day
                 num_days == end - start
                 found == {d \in start..(end - 1) :
                            get_tweets_on_date_entry(table, d, entry_number)
                                # {}}
             IN  IF start = end THEN nothing
                 ELSE {[date |-> Str(d),
                        tweets |->
                            get_tweets_on_date_entry(table, d, entry_number)]
                          : d \in found}
                      \cup (IF num_days - Cardinality(found)
                                  >= Min(num_days, num_tries)
                            THEN nothing ELSE {})

\* tweets[0], for every order the query can return the items in; None when
\* the list is empty.
FirstOf(tweets) == IF tweets = {} THEN {None} ELSE tweets

\* Lines 300-307 without the tweet_exists test.
PreviousTweet_NoExistsTest(first, on_platform) ==
    IF first = None THEN EmptyDict
    ELSE IF ~validate_item_against_schema(TweetsSchema, first)
         THEN EmptyDict
         ELSE Dict({<<"tweet_id", first.TweetId>>, <<"word", first.Word>>,
                    <<"url", tweet_url(TWITTER_USER_USERNAME,
                                       first.TweetId)>>})

\* Lines 289-310, one turn of the loop: the slot of a date_key whose query
\* returned a list with the given first item.
PreviousTweet(first, on_platform) ==
    IF first = None THEN EmptyDict
    ELSE IF ~validate_item_against_schema(TweetsSchema, first)
         THEN EmptyDict
         ELSE IF ~tweet_exists(on_platform, first.TweetId) THEN EmptyDict
         ELSE Dict({<<"tweet_id", first.TweetId>>, <<"word", first.Word>>,
                    <<"url", tweet_url(TWITTER_USER_USERNAME,
                                       first.TweetId)>>})

\* get_previous_tweets(date_entry): every PreviousTweets it can return,
\* with the three calls of get_tweets_on_date behind it (the date and the
\* date_entry queried, and the first item returned).
get_previous_tweets(table, setting, on_platform, day, entry_number) ==
    {[previous_tweets |->
          PreviousTweets(PreviousTweet(lw, on_platform),
                         PreviousTweet(lm, on_platform),
                         PreviousTweet(r.first, on_platform)),
      lookups |->
          [last_week |-> [date |-> Str(day - 7), date_entry |-> entry_number,
                          first |-> lw],
           last_month |-> [date |-> Str(day - 30),
                           date_entry |-> entry_number, first |-> lm],
           random |-> [date |-> r.date, date_entry |-> entry_number,
                       first |-> r.first]]] :
        lw \in FirstOf(get_tweets_on_date_entry(table, day - 7,
                                                entry_number)),
        lm \in FirstOf(get_tweets_on_date_entry(table, day - 30,
                                                entry_number)),
        r \in UNION {{[date |-> x.date, first |-> f] : f \in FirstOf(x.tweets)}
                       : x \in get_tweets_on_random_date(table, setting, day,
                                                         entry_number)}}

\* Line 51 with every Tweet stored as the first of its day.
DateEntry_Zero(count) == 0

\* Line 51 with the count of today's Tweets taken one too high.
DateEntry_OneBased(count) == count + 1

\* date_entry = num_tweets_today
DateEntry(count) == count

\* The bot is deployed: a history, a queue of words, and no run yet.
InitMain ==
    /\ today = FirstDay
    /\ \E h \in Histories :
        /\ tweets_table = h.tweets_table
        /\ statuses = h.statuses
        /\ earliest_tweet_date = h.earliest
        /\ created = Created(h.tweets_table)
    /\ unprocessed_words \in Queues
    /\ runs = 0
    /\ NoRun
    /\ NoCall
    /\ NoRandomCall
    /\ NoHandler

\* Line 46 with > in place of >=.
QuotaReached_Exceeded(count) == count > TWEETS_PER_DAY

\* if num_tweets_today >= TWEETS_PER_DAY
QuotaReached(count) == count >= TWEETS_PER_DAY

\* get_and_delete_unprocessed_word without table.delete_item(Key=key).
delete_item_Skipped(words) == words

\* table.delete_item(Key=key) on the item that scan(Limit=1) returned.
delete_item(words) == Tail(words)

\* put_item that writes the item before it raises AWSClientError.
put_item_WritesThenRaises(table, item, stored) == table \cup {item}

\* put_item(table, item): the item is in the table unless AWSClientError
\* is raised.
put_item(table, item, stored) == IF stored THEN table \cup {item} ELSE table

\* Lines 44-51.
StartRun ==
    /\ main_pc = "idle"
    /\ runs < MaxRuns
    /\ runs' = runs + 1
    /\ LET count == Cardinality(get_tweets_on_date(tweets_table, today))
           r == [Run EXCEPT !.num_tweets_today = count, !.before = World]
       IN  IF QuotaReached(count)
           THEN BindRun(Return(r, "max_tweets"))
           ELSE BindRun([r EXCEPT !.date_entry = DateEntry(count),
                                  !.main_pc = "pop"])
    /\ UNCHANGED <<args, locals, history, world, created, aux>>

\* Lines 54-59: get_and_delete_unprocessed_word scans one item and deletes
\* it.
PopWord ==
    /\ main_pc = "pop"
    /\ IF unprocessed_words = <<>>
       THEN /\ BindRun(Return(Run, "no_words"))
            /\ UNCHANGED unprocessed_words
       ELSE /\ BindRun([Run EXCEPT
                           !.unprocessed_word = Head(unprocessed_words),
                           !.main_pc = "lookup"])
            /\ unprocessed_words' = delete_item(unprocessed_words)
    /\ UNCHANGED <<args, locals, history, today, tweets_table,
                   earliest_tweet_date, statuses, runs, created, aux>>

\* Lines 62-74.
Lookup ==
    /\ main_pc = "lookup"
    /\ \E response \in DictionaryResponses(unprocessed_word.Pinyin) :
        LET characters == unprocessed_word.Characters
        IN  CASE response.result = "MDBGError" ->
                    /\ BindRun(Return(Run, "bad_response"))
                    /\ BindArgs([Args EXCEPT
                                    !.simplified = characters,
                                    !.pinyin = unprocessed_word.Pinyin])
              [] response.result = "False" ->
                    /\ BindRun(Return(Run, "no_entry"))
                    /\ BindArgs([Args EXCEPT
                                    !.simplified = characters,
                                    !.pinyin = unprocessed_word.Pinyin])
              [] response.result = "True" ->
                    /\ BindRun([Run EXCEPT !.main_pc = "previous"])
                    /\ BindArgs([Args EXCEPT
                                    !.simplified = characters,
                                    !.pinyin = response.pinyin,
                                    !.definitions = response.definitions])
    /\ UNCHANGED <<locals, history, world, runs, created, aux>>

\* Line 77: get_previous_tweets returns, or a query of the Tweets table
\* raises AWSClientError or tweet_exists raises TwitterAPIError; main()
\* catches neither.
GetPreviousTweets ==
    /\ main_pc = "previous"
    /\ \/ \E result \in get_previous_tweets(tweets_table,
                                            earliest_tweet_date, statuses,
                                            today, date_entry) :
            /\ BindArgs([Args EXCEPT
                            !.previous_tweets = result.previous_tweets])
            /\ BindRun([Run EXCEPT !.lookups = result.lookups,
                                   !.main_pc = "compose"])
       \/ \E exception \in {"AWSClientError", "TwitterAPIError"} :
            /\ BindRun(Raise(Run, exception))
            /\ UNCHANGED args
    /\ UNCHANGED <<locals, history, world, runs, created, aux>>

\* Line 80 with the ValueError swallowed: the run goes on to post.
ComposeOutcome_Swallowed(r, l) == [r EXCEPT !.main_pc = "post"]

\* Line 80: the ValueError of generate_tweet_body leaves main(), nothing
\* catches it; a body lets the run go on to line 83.
ComposeOutcome(r, l) ==
    IF l.pc = "raised" THEN Raise(r, "ValueError")
    ELSE [r EXCEPT !.main_pc = "post"]

\* Line 80: the call of generate_tweet_body.
Compose ==
    /\ main_pc = "compose"
    /\ LET l == generate_tweet_body(Args)
       IN  /\ Bind(l)
           /\ BindRun(ComposeOutcome(Run, l))
    /\ UNCHANGED <<args, history, world, runs, created, aux>>

\* Lines 83-87: post_tweet creates the Tweet and returns its id_str, raises
\* TwitterAPIError, or (as its docstring says and the tests make it do)
\* returns None.
Post ==
    /\ main_pc = "post"
    /\ \E response \in {"id_str", "None", "TwitterAPIError"} :
        CASE response = "id_str" ->
                /\ statuses' = statuses \cup {NewTweetId(runs)}
                /\ created' = created
                        \cup {[id_str |-> NewTweetId(runs), date |-> today]}
                /\ BindRun([Run EXCEPT !.tweet_id_str = NewTweetId(runs),
                                       !.main_pc = "put_tweet"])
          [] response = "None" ->
                /\ BindRun(Return(Run, "tweet_failed"))
                /\ UNCHANGED <<statuses, created>>
          [] response = "TwitterAPIError" ->
                /\ BindRun(Raise(Run, "TwitterAPIError"))
                /\ UNCHANGED <<statuses, created>>
    /\ UNCHANGED <<args, locals, history, today, unprocessed_words,
                   tweets_table, earliest_tweet_date, runs, aux>>

\* Lines 90-103: put_item stores the item or raises AWSClientError.
PutTweet ==
    /\ main_pc = "put_tweet"
    /\ LET item == TweetItem(uuid4(runs), tweet_id_str, today, date_entry,
                             simplified)
       IN  \E stored \in BOOLEAN :
            /\ tweets_table' = put_item(tweets_table, item, stored)
            /\ IF stored
               THEN BindRun([Run EXCEPT !.tweet = item,
                                       !.main_pc = "put_setting"])
               ELSE BindRun(Return([Run EXCEPT !.tweet = item],
                                   "tweet_put_failed"))
    /\ UNCHANGED <<args, locals, history, today, unprocessed_words,
                   earliest_tweet_date, statuses, runs, created, aux>>

\* Line 106 without the test.
SettingIsUnset_Always(setting) == TRUE

\* if get_earliest_tweet_date() is None
SettingIsUnset(setting) == get_earliest_tweet_date(setting) = None

\* Lines 106-120.
PutSetting ==
    /\ main_pc = "put_setting"
    /\ IF SettingIsUnset(earliest_tweet_date)
       THEN \E stored \in BOOLEAN :
            IF stored
            THEN /\ earliest_tweet_date' =
                        set_earliest_tweet_date(earliest_tweet_date,
                                                tweet.Date)
                 /\ BindRun(Return(Run, "posted"))
            ELSE /\ BindRun(Return(Run, "setting_put_failed"))
                 /\ UNCHANGED earliest_tweet_date
       ELSE /\ BindRun(Return(Run, "posted"))
            /\ UNCHANGED earliest_tweet_date
    /\ UNCHANGED <<args, locals, history, today, unprocessed_words,
                   tweets_table, statuses, runs, created, aux>>

\* The run is over; its locals are gone.  The next one starts the same day.
EndRun ==
    /\ main_pc = "done"
    /\ BindRun(InitRun)
    /\ BindArgs(NoArgs)
    /\ Bind(InitLocals)
    /\ UNCHANGED <<history, world, runs, created, aux>>

\* The run is over and the next one starts a day or a week later.
NextDay ==
    /\ main_pc = "done"
    /\ runs < MaxRuns
    /\ \E days \in {1, 7} :
        /\ today + days <= FirstDay + MaxDays
        /\ today' = today + days
    /\ BindRun(InitRun)
    /\ BindArgs(NoArgs)
    /\ Bind(InitLocals)
    /\ UNCHANGED <<history, unprocessed_words, tweets_table,
                   earliest_tweet_date, statuses, runs, created, aux>>

NextMain ==
    \/ StartRun
    \/ PopWord
    \/ Lookup
    \/ GetPreviousTweets
    \/ Compose
    \/ Post
    \/ PutTweet
    \/ PutSetting
    \/ EndRun
    \/ NextDay

SpecMain == InitMain /\ [][NextMain]_vars

-----------------------------------------------------------------------------
(* get_tweets_on_random_date(date_entry=date_entry), one query per step.  *)

\* The days the earliest Tweet date can lie before today.
MaxRandomDays == 7

\* The sequences of n distinct elements of a set.
Samples(S, n) ==
    {s \in [1..n -> S] : \A a, b \in 1..n : a # b => s[a] # s[b]}

\* random_dates_in_range with the days of the range up to end.
random_dates_in_range_Inclusive(start, end, k) ==
    LET num_days == end - start + 1
    IN  {[n \in DOMAIN sample |-> start + sample[n]]
            : sample \in Samples(0..(num_days - 1), Min(num_days, k))}

\* random_dates_in_range(start, end, k), called with start < end and k = 5:
\* every list random.sample(range(num_days), min(num_days, k)) can give,
\* each added to start.
random_dates_in_range(start, end, k) ==
    LET num_days == end - start
    IN  {[n \in DOMAIN sample |-> start + sample[n]]
            : sample \in Samples(0..(num_days - 1), Min(num_days, k))}

\* Tweets of some earlier days and of today, of entries 0 and 1
\* (test_get_tweets_on_random_date_output stores one a day).
RandomItems ==
    {TweetItem("uuid-c1", "921", FirstDay - 5, 0, "Z"),
     TweetItem("uuid-c2", "922", FirstDay - 4, 0, "ZZ"),
     TweetItem("uuid-c3", "923", FirstDay - 3, 1, "ZZ"),
     TweetItem("uuid-c4", "924", FirstDay - MaxRandomDays, 0, "ZZZ"),
     TweetItem("uuid-c5", "925", FirstDay, 0, "ZZZ"),
     TweetItem("uuid-c6", "926", FirstDay, 1, "ZZZ")}

RandomTables ==
    {{}, RandomItems,
     {item \in RandomItems : item.Date = FirstDay},
     {item \in RandomItems : item.Date \in {FirstDay - 5, FirstDay}},
     {item \in RandomItems : item.DateEntry = 0}}

\* The setting is unset, or holds today, yesterday, or an earlier day.
RandomSettings ==
    {None} \cup {Str(FirstDay - n) : n \in {0, 1, 5, MaxRandomDays}}

InitRandom ==
    /\ today = FirstDay
    /\ unprocessed_words = <<>>
    /\ tweets_table \in RandomTables
    /\ earliest_tweet_date \in RandomSettings
    /\ statuses = {item.TweetId : item \in tweets_table}
    /\ created = Created(tweets_table)
    /\ runs = 0
    /\ main_pc = InitRun.main_pc
    /\ num_tweets_today = InitRun.num_tweets_today
    /\ date_entry \in 0..1
    /\ unprocessed_word = InitRun.unprocessed_word
    /\ tweet_id_str = InitRun.tweet_id_str
    /\ tweet = InitRun.tweet
    /\ output = InitRun.output
    /\ raised = InitRun.raised
    /\ lookups = InitRun.lookups
    /\ before = InitRun.before
    /\ NoCall
    /\ NoHandler
    /\ random_pc = "start"
    /\ random_dates = <<>>
    /\ random_date = 0
    /\ queried = <<>>
    /\ random_tweets = {}

\* Lines 339-346: return [] with no setting or with today in it, else
\* sample the dates.
SampleDates ==
    /\ random_pc = "start"
    /\ LET min_date == get_earliest_tweet_date(earliest_tweet_date)
       IN  IF min_date = None
           THEN /\ random_pc' = "returned"
                /\ UNCHANGED random_dates
           ELSE LET start == min_date.value
                    end == today
                IN  IF start = end
                    THEN /\ random_pc' = "returned"
                         /\ UNCHANGED random_dates
                    ELSE /\ random_dates'
                                \in random_dates_in_range(start, end, num_tries)
                         /\ random_pc' = "loop"
    /\ random_date' = 1
    /\ random_tweets' = {}
    /\ UNCHANGED <<queried, args, locals, history, world, run, runs, created,
                   handler>>

\* Lines 347-351: one turn of the loop, or its end.
QueryDate ==
    /\ random_pc = "loop"
    /\ IF random_date <= Len(random_dates)
       THEN LET tweets == get_tweets_on_date_entry(
                              tweets_table, random_dates[random_date],
                              date_entry)
            IN  /\ queried' = Append(queried, random_dates[random_date])
                /\ IF tweets # {}
                   THEN /\ random_tweets' = tweets
                        /\ random_pc' = "returned"
                        /\ UNCHANGED random_date
                   ELSE /\ random_date' = random_date + 1
                        /\ UNCHANGED <<random_tweets, random_pc>>
       ELSE /\ random_tweets' = {}
            /\ random_pc' = "returned"
            /\ UNCHANGED <<queried, random_date>>
    /\ UNCHANGED <<random_dates, args, locals, history, world, run, runs,
                   created, handler>>

NextRandom ==
    \/ SampleDates
    \/ QueryDate

SpecRandom == InitRandom /\ [][NextRandom]_vars

-----------------------------------------------------------------------------
(* lambda_handler(event, context), which runs main() until it is done.     *)

\* Line 9.
max_tries == 3

\* Lines 12-16 with every code but OK retried.
retry_exit_codes_EveryFailure ==
    {TwitterBotExitCodes[name] : name \in DOMAIN TwitterBotExitCodes}
        \ {TwitterBotExitCodes.OK}

\* Lines 12-16.
retry_exit_codes ==
    {TwitterBotExitCodes.BAD_DICTIONARY_RESPONSE,
     TwitterBotExitCodes.NO_DICTIONARY_ENTRY,
     TwitterBotExitCodes.TWEET_FAILED}

\* except SystemExit as e, with e.code
SystemExit(code) == [raised |-> "SystemExit", code |-> code]

\* How a call of main() in src/main.py ends: it returns, or an exception
\* that is not a SystemExit leaves it (the ValueError of
\* generate_tweet_body, a TwitterAPIError, an AWSClientError).
MainOutcomes == {[raised |-> "nothing"], [raised |-> "Exception"]}

\* How a call of main() ends as its tests and lambda_handler expect it to:
\* with SystemExit and one of the TwitterBotExitCodes.
ExitOutcomes ==
    {SystemExit(TwitterBotExitCodes[name])
        : name \in DOMAIN TwitterBotExitCodes}

InitLambda ==
    /\ NoWorld
    /\ NoCall
    /\ NoRandomCall
    /\ handler_pc = "loop"
    /\ handler_num_tries = 0
    /\ success = FALSE
    /\ outcomes = <<>>
    /\ status_code = 0

\* Lines 19-40: one test of the while condition and one iteration.
Attempt ==
    /\ handler_pc = "loop"
    /\ IF handler_num_tries < max_tries
       THEN /\ handler_num_tries' = handler_num_tries + 1
            /\ \E e \in MainOutcomes \cup ExitOutcomes :
                /\ outcomes' = Append(outcomes, e)
                /\ IF e.raised = "SystemExit"
                   THEN IF e.code = TwitterBotExitCodes.OK
                        THEN /\ success' = TRUE
                             /\ handler_pc' = "respond"
                        ELSE IF e.code \in retry_exit_codes
                        THEN UNCHANGED <<success, handler_pc>>
                        ELSE /\ handler_pc' = "respond"
                             /\ UNCHANGED success
                   ELSE /\ handler_pc' = "respond"
                        /\ UNCHANGED success
       ELSE /\ handler_pc' = "respond"
            /\ UNCHANGED <<handler_num_tries, success, outcomes>>
    /\ UNCHANGED <<status_code, args, locals, history, world, run, runs,
                   created, random_call>>

\* Lines 42-50.
Respond ==
    /\ handler_pc = "respond"
    /\ status_code' = IF success THEN 200 ELSE 500
    /\ handler_pc' = "done"
    /\ UNCHANGED <<handler_num_tries, success, outcomes, args, locals,
                   history, world, run, runs, created, random_call>>

NextLambda ==
    \/ Attempt
    \/ Respond

\* The handler is a sequential function: a step that can be taken is taken.
SpecLambda == InitLambda /\ [][NextLambda]_vars /\ WF_vars(NextLambda)

-----------------------------------------------------------------------------
(* The accounted length of a body, as TestGenerateTweetBody counts it. *)

\* The cost one previous Tweet adds to the count when its label is in the
\* body.
LabelCount(b, label, values) ==
    IF Contains(b, label)
    THEN Len(Get(values, "word")) - Len(Get(values, "url")) + TWEET_URL_LENGTH
    ELSE 0

\* tweet_body_length(body, word, last_week, last_month, random)
tweet_body_length(b, word, last_week, last_month, random) ==
    Len(b) + Len(word)
        + LabelCount(b, "Last Week", last_week)
        + LabelCount(b, "Last Month", last_month)
        + LabelCount(b, "Random", random)

\* The accounted length of the body of the call in progress.
BodyLength ==
    tweet_body_length(body, simplified, previous_tweets.last_week,
                      previous_tweets.last_month, previous_tweets.random)

-----------------------------------------------------------------------------
\* C1: whenever generate_tweet_body returns a body, the body's accounted
\* length (its length, plus the length of the characters, plus for each
\* previous Tweet whose block is in the body the length of its word minus
\* that of its URL plus TWEET_URL_LENGTH) is at most TWEET_MAX_CHARS.
C1_AccountedLengthWithinMax ==
    pc = "returned" => BodyLength <= TWEET_MAX_CHARS

\* A body with a previous Tweet in it that uses all 280 characters.
C1_Witness ==
    /\ pc = "returned"
    /\ Contains(body, "Last Month")
    /\ BodyLength = TWEET_MAX_CHARS

\* C2: the call raises exactly when the minimal entry
\* `{characters} ({pronunciation})`, counted as
\* 2 * len(characters) + len(pronunciation) + 3, exceeds TWEET_MAX_CHARS;
\* every other call returns a body.
C2_MinimalCost == 2 * Len(simplified) + Len(pinyin) + 3

C2_RaisesIffMinimalTooLong ==
    /\ pc = "raised" => C2_MinimalCost > TWEET_MAX_CHARS
    /\ pc = "returned" => C2_MinimalCost <= TWEET_MAX_CHARS
    /\ pc = "start" =>
        generate_tweet_body(Args).pc =
            IF C2_MinimalCost > TWEET_MAX_CHARS THEN "raised" ELSE "returned"

\* A call that raised, for a word one character longer than one that fits.
C2_Witness ==
    /\ pc = "raised"
    /\ C2_MinimalCost = TWEET_MAX_CHARS + 2

\* C3: in test_overlong_previous_entry, with three previous Tweets of a
\* 111-character word the body has "Last Week" only and counts 280; with
\* Last Week's word 112 characters long it has "Random" only and counts 277.
C3_OverlongPreviousEntry ==
    /\ (pc = "returned" /\ Args = OverlongPrevious111) =>
        /\ Contains(body, "Last Week")
        /\ ~Contains(body, "Last Month")
        /\ ~Contains(body, "Random")
        /\ BodyLength = 280
    /\ (pc = "returned" /\ Args = OverlongPrevious112) =>
        /\ ~Contains(body, "Last Week")
        /\ ~Contains(body, "Last Month")
        /\ Contains(body, "Random")
        /\ BodyLength = 277

\* The second call of the test has returned, with the random Tweet.
C3_Witness ==
    /\ pc = "returned"
    /\ Args = OverlongPrevious112
    /\ Contains(body, "\nRandom: " \o Rep("Z", 111) \o " (" \o Url \o ")")

-----------------------------------------------------------------------------
(* What the claims below say of a call, in their own terms. *)

slots == <<"last_week", "last_month", "random">>

\* The previous Tweet of the k-th label.
Previous(k) == previous_tweets[slots[k]]

\* A previous Tweet that is None, empty, or lacks "word" or "url".
Missing(previous) ==
    \/ previous.type = "NoneType"
    \/ previous.items = {}
    \/ ~HasKey(previous, "word")
    \/ ~HasKey(previous, "url")

\* The line of the k-th previous Tweet.
BlockText(k) ==
    "\n" \o labels[k] \o ": " \o Get(Previous(k), "word")
         \o " (" \o Get(Previous(k), "url") \o ")"

\* The accounted cost of the k-th previous Tweet's line.
BlockCost(k) ==
    Len(labels[k]) + 2 * Len(Get(Previous(k), "word")) + 6 + TWEET_URL_LENGTH

\* The arguments with the previous Tweet of one slot replaced.
WithPrevious(p, slot, previous) ==
    [p EXCEPT !.previous_tweets[slot] = previous]

\* C4: a previous Tweet that is None, empty, or lacks "word" or "url" is
\* treated as absent: the body is the one returned when it is None and has
\* no line for its label; with all three missing the body has none of the
\* three labels.
C4_MissingPreviousOmitted ==
    pc = "returned" =>
        /\ \A k \in 1..3 : Missing(Previous(k)) =>
            /\ body = generate_tweet_body(
                          WithPrevious(Args, slots[k], None)).body
            /\ ~Contains(body, labels[k])
        /\ (\A k \in 1..3 : Missing(Previous(k))) =>
            \A k \in 1..3 : ~Contains(body, labels[k])

\* A body with Last Week and Random, where Last Month has no "word".
C4_Witness ==
    /\ pc = "returned"
    /\ previous_tweets.last_month = Dict({<<"url", Url>>})
    /\ Contains(body, "Last Week")
    /\ Contains(body, "Random")

\* A definition fits the first pass when the minimal entry, ": " and the
\* definition together count at most TWEET_MAX_CHARS.
FitsFullBudget(definition) ==
    C2_MinimalCost + 2 + Len(definition) <= TWEET_MAX_CHARS

\* The index (from 0) of the first definition that fits, or
\* len(definitions) when none does.
LowestFit ==
    IF \E k \in 1..Len(definitions) : FitsFullBudget(definitions[k])
    THEN (CHOOSE k \in 1..Len(definitions) :
            /\ FitsFullBudget(definitions[k])
            /\ \A j \in 1..(k - 1) : ~FitsFullBudget(definitions[j])) - 1
    ELSE Len(definitions)

\* The places of the call after the scan of the first pass.
AfterScan ==
    {"first_choose", "newline", "previous", "include_init", "include_loop",
     "topup_init", "topup_loop", "finish", "returned"}

\* Other previous Tweets to call generate_tweet_body with.
OtherPrevious ==
    {TestPrevious(None), TestPrevious(Ref("Z", Url)),
     TestPrevious(Ref(Rep("Z", 112), LongUrl))}

\* C5: the first pass chooses the lowest-index definition that fits the
\* full budget, the same one whatever the previous Tweets, and puts that
\* one definition only in the current entry.
C5_FirstFittingDefinition ==
    /\ pc \in AfterScan => definition_index = LowestFit
    /\ (pc = "newline" /\ definition_index < Len(definitions)) =>
        tweet_entries["Now"].entry =
            simplified \o " (" \o pinyin \o "): "
                \o definitions[definition_index + 1]
    /\ pc = "newline" =>
        \A pt \in OtherPrevious :
            generate_tweet_body([Args EXCEPT !.previous_tweets = pt])
                .definition_index = definition_index

\* The first definition is too long, and both later ones fit.
C5_Witness ==
    /\ pc = "newline"
    /\ Len(definitions) = 3
    /\ definition_index = 1
    /\ FitsFullBudget(definitions[3])

\* The labels admitted in the order Last Week, Last Month, Random from the
\* k-th on against a budget.
RECURSIVE Admitted(_, _)
Admitted(k, budget) ==
    IF k > 3 THEN {}
    ELSE IF ~Missing(Previous(k)) /\ BlockCost(k) <= budget
         THEN {k} \cup Admitted(k + 1, budget - BlockCost(k))
         ELSE Admitted(k + 1, budget)

NoDefinitionFits ==
    \A k \in 1..Len(definitions) : ~FitsFullBudget(definitions[k])

\* C6: when no definition fits the first pass the call still returns, the
\* current entry is `{characters} ({pronunciation})` with no ": " and no
\* definition, and the previous Tweets are admitted against what the entry
\* and its newline leave.
C6_NoDefinitionFits ==
    /\ (pc \in Final /\ NoDefinitionFits
            /\ C2_MinimalCost <= TWEET_MAX_CHARS) => pc = "returned"
    /\ (pc = "returned" /\ NoDefinitionFits) =>
        LET minimal == simplified \o " (" \o pinyin \o ")"
        IN  /\ SubSeq(body, 1, Len(minimal)) = minimal
            /\ \/ Len(body) = Len(minimal)
               \/ SubSeq(body, Len(minimal) + 1, Len(minimal) + 2) = "\n\n"
            /\ \A k \in 1..3 :
                (~Missing(Previous(k)) /\ Contains(body, BlockText(k)))
                    <=> k \in Admitted(1, TWEET_MAX_CHARS
                                            - C2_MinimalCost - 1)

\* Four definitions, none of which fits, and Last Week in the body.
C6_Witness ==
    /\ pc = "returned"
    /\ Len(definitions) = 4
    /\ NoDefinitionFits
    /\ Contains(body, "\n\nLast Week: ")

\* C7: the top-up pass visits the definitions other than the chosen one in
\* index order; it appends one, joined by "; ", exactly when its length plus
\* 2 is within the remaining budget, which it then reduces by that much; it
\* skips one that does not fit and goes on to the later ones.
C7_TopUpPass ==
    [][/\ pc = "topup_init" => i' = 0
       /\ (pc = "topup_loop" /\ pc' = "topup_loop") =>
            LET definition == definitions[i + 1]
                block == SubSeq(entry, 1, Len(entry) - 1)
            IN  /\ i' = i + 1
                /\ IF i # definition_index
                        /\ Len(definition) + 2 <= remaining_chars
                   THEN /\ entry' = block \o "; " \o definition \o "\n"
                        /\ remaining_chars' =
                               remaining_chars - (Len(definition) + 2)
                   ELSE /\ entry' = entry
                        /\ remaining_chars' = remaining_chars
       /\ (pc = "topup_loop" /\ pc' # "topup_loop") =>
            /\ i = Len(definitions)
            /\ pc' = "finish"
            /\ entry' = entry]_vars

\* The second definition was skipped as too long and the third appended.
C7_Witness ==
    /\ pc = "finish"
    /\ Len(definitions) = 3
    /\ definition_index = 0
    /\ Len(definitions[2]) + 2 > TWEET_MAX_CHARS
    /\ Contains(entry, "; " \o definitions[3] \o "\n")
    /\ Len(definitions[3]) > 0

\* The list of the first chosen definition alone.
ChosenOnly ==
    IF definition_index < Len(definitions)
    THEN <<definitions[definition_index + 1]>>
    ELSE <<>>

\* The labels whose line is in a body.
BlocksIn(b) == {k \in 1..3 : Contains(b, "\n" \o labels[k] \o ": ")}

\* C8: the previous Tweets in the body are those of the call with the first
\* chosen definition alone, hence the same for any two lists of definitions
\* with the same first chosen definition.  In
\* test_further_definitions_included_after_previous_entries the body with
\* three one-character Tweets has "hello; hi; hey" and counts 147; without
\* the random Tweet it has the 133-character definition too and counts 245.
C8_PreviousBeforeFurtherDefinitions ==
    pc = "returned" =>
        /\ BlocksIn(body) =
               BlocksIn(generate_tweet_body(
                            [Args EXCEPT !.definitions = ChosenOnly]).body)
        /\ Args = FurtherDefinitions =>
            /\ body = "ZZ (nihao): hello; hi; hey\n"
                        \o "\nLast Week: Z (" \o Url \o ")"
                        \o "\nLast Month: Z (" \o Url \o ")"
                        \o "\nRandom: Z (" \o Url \o ")"
            /\ BodyLength = 147
        /\ Args = FurtherDefinitionsNoRandom =>
            /\ body = "ZZ (nihao): hello; hi; hey; " \o Rep("_", 133) \o "\n"
                        \o "\nLast Week: Z (" \o Url \o ")"
                        \o "\nLast Month: Z (" \o Url \o ")"
            /\ BodyLength = 245

\* The call of the test without the random Tweet has returned with the
\* 133-character definition.
C8_Witness ==
    /\ pc = "returned"
    /\ Args = FurtherDefinitionsNoRandom
    /\ Contains(body, "; " \o Rep("_", 133) \o "\n")

\* A previous Tweet with its URL, when it has one, replaced.
WithUrl(previous, url) ==
    IF previous.type = "dict" /\ HasKey(previous, "url")
    THEN Dict({kv \in previous.items : kv[1] # "url"} \cup {<<"url", url>>})
    ELSE previous

\* The arguments with every URL replaced.
WithUrls(p, url) ==
    [p EXCEPT !.previous_tweets =
        [slot \in DOMAIN p.previous_tweets |->
            WithUrl(p.previous_tweets[slot], url)]]

\* The labels included by a call that has ended and the definitions of its
\* current entry.
Outcome(l) ==
    [blocks |-> {k \in 1..3 :
                    /\ labels[k] \in DOMAIN l.tweet_entries
                    /\ \E n \in 2..Len(l.included_entries) :
                        l.included_entries[n] =
                            l.tweet_entries[labels[k]].entry},
     definitions |-> IF l.included_entries = <<>>
                     THEN l.body
                     ELSE l.included_entries[1]]

\* C9: a previous Tweet's line costs len(label) + 2 * len(word) + 6 +
\* TWEET_URL_LENGTH whatever its URL; a call with other URLs includes the
\* same previous Tweets and the same definitions; every included line has
\* its URL verbatim.
C9_UrlLengthIndependence ==
    pc = "returned" =>
        /\ \A k \in 1..3 : labels[k] \in DOMAIN tweet_entries =>
            tweet_entries[labels[k]].char_count = BlockCost(k)
        /\ \A url \in {Url, LongUrl, ""} :
            Outcome(generate_tweet_body(WithUrls(Args, url)))
                = Outcome(Locals)
        /\ \A k \in Outcome(Locals).blocks : Contains(body, BlockText(k))

\* A body with the long URL that is longer than TWEET_MAX_CHARS.
C9_Witness ==
    /\ pc = "returned"
    /\ Len(body) > TWEET_MAX_CHARS
    /\ \A k \in 1..3 : Contains(body, labels[k] \o ": Z (" \o LongUrl \o ")")

\* The line of the k-th previous Tweet if the call included it.
IncludedLine(k) ==
    IF k \in Outcome(Locals).blocks THEN BlockText(k) ELSE ""

\* C10: the returned body is the current entry first, then the included
\* previous Tweets in the order Last Week, Last Month, Random, each on its
\* own line after a blank line, with leading and trailing whitespace
\* stripped; no included line is repeated or out of order.
C10_BodyLayout ==
    pc = "returned" =>
        /\ body = Strip(entry \o IncludedLine(1) \o IncludedLine(2)
                              \o IncludedLine(3))
        /\ Outcome(Locals).blocks # {} =>
            SubSeq(entry, Len(entry), Len(entry)) = "\n"

-----------------------------------------------------------------------------
(* C11: composition is a pure function. *)

-----------------------------------------------------------------------------
(* C12, C13: the count of main.py against the count of the platform. *)

\* The characters of s that the platform counts twice.
WideCount(s) == Cardinality({n \in 1..Len(s) : SubSeq(s, n, n) = "Z"})

\* What the URL of a previous Tweet whose label is in b adds to the count
\* of the platform beyond its own length.
UrlCount(b, label, values) ==
    IF Contains(b, label)
    THEN TWEET_URL_LENGTH - Len(Get(values, "url"))
    ELSE 0

\* The length of b as the platform counts it: a Chinese character counts
\* 2, every other character 1 and a URL TWEET_URL_LENGTH.
PlatformLength(b, previous) ==
    Len(b) + WideCount(b)
        + UrlCount(b, "Last Week", previous.last_week)
        + UrlCount(b, "Last Month", previous.last_month)
        + UrlCount(b, "Random", previous.random)

\* C12: counted as the platform counts it (each Chinese character 2, each
\* URL TWEET_URL_LENGTH), a body returned by generate_tweet_body is at most
\* TWEET_MAX_CHARS long, also when the pinyin or an included definition
\* holds Chinese characters.
C12_PlatformLengthWithinMax ==
    pc = "returned" => PlatformLength(body, previous_tweets) <= TWEET_MAX_CHARS

\* C13: when the current entry (characters, pinyin and chosen definition)
\* holds ASCII characters only, the count main.py keeps for it is the length
\* of its text.
C13_AsciiChargedRawCount ==
    (pc = "newline" /\ WideCount(tweet_entries["Now"].entry) = 0) =>
        tweet_entries["Now"].char_count = Len(tweet_entries["Now"].entry)

-----------------------------------------------------------------------------
(* C14-C20: the runs of main(). *)

\* The number of Tweets items the run in progress found for today.
FoundToday == Cardinality(get_tweets_on_date(before.tweets_table, today))

\* C14: a run of main() that finds TWEETS_PER_DAY or more Tweets items for
\* today changes nothing: the queue of unprocessed words, the Tweets on the
\* platform, the Tweets table and the earliest_tweet_date setting stay as
\* the run found them.
C14_QuotaReachedChangesNothing ==
    (main_pc # "idle" /\ FoundToday >= TWEETS_PER_DAY) =>
        /\ main_pc = "done"
        /\ World = before

\* A run has ended on the quota with words waiting in the queue.
C14_Witness ==
    /\ main_pc = "done"
    /\ output = "max_tweets"
    /\ unprocessed_words # <<>>
    /\ Cardinality(statuses) >= TWEETS_PER_DAY

\* C15: when a run ends because the dictionary raised MDBGError, because no
\* entry was found or because post_tweet returned None, the platform, the
\* Tweets table and the setting are as the run found them, and the word the
\* run popped is gone from the queue.
C15_FailureBeforePost ==
    (main_pc = "done"
        /\ output \in {"bad_response", "no_entry", "tweet_failed"}) =>
        /\ statuses = before.statuses
        /\ tweets_table = before.tweets_table
        /\ earliest_tweet_date = before.earliest_tweet_date
        /\ before.unprocessed_words # <<>>
        /\ unprocessed_word = Head(before.unprocessed_words)
        /\ unprocessed_words = Tail(before.unprocessed_words)

\* A run has ended because post_tweet returned None, after an earlier run
\* had posted.
C15_Witness ==
    /\ main_pc = "done"
    /\ output = "tweet_failed"
    /\ runs > 1
    /\ NewTweetId(1) \in statuses

\* C16: when storing the Tweets item fails, the Tweet of the run stays on
\* the platform, the Tweets table and the setting are as the run found
\* them; when storing the setting fails, the Tweet stays on the platform,
\* its item stays in the Tweets table with the DateEntry of the run, and
\* the setting stays unset.
C16_StorageFailureNotRolledBack ==
    /\ (main_pc = "done" /\ output = "tweet_put_failed") =>
        /\ tweet_id_str \in statuses \ before.statuses
        /\ \A item \in tweets_table : item.TweetId # tweet_id_str
        /\ tweets_table = before.tweets_table
        /\ earliest_tweet_date = before.earliest_tweet_date
    /\ (main_pc = "done" /\ output = "setting_put_failed") =>
        /\ tweet_id_str \in statuses \ before.statuses
        /\ tweets_table =
               before.tweets_table
                   \cup {TweetItem(tweet.Id, tweet_id_str, today, FoundToday,
                                   simplified)}
        /\ tweet \in tweets_table \ before.tweets_table
        /\ earliest_tweet_date = None

\* A run has ended because storing the setting failed.
C16_Witness ==
    /\ main_pc = "done"
    /\ output = "setting_put_failed"
    /\ tweet.DateEntry = 0
    /\ tweet_id_str \in statuses

\* C17: a run that posts and stores its Tweet while no setting is stored
\* sets earliest_tweet_date to the date of that Tweet, and a stored setting
\* is never written again: no step changes it.
C17_EarliestTweetDateSetOnce ==
    [][/\ earliest_tweet_date # None =>
            earliest_tweet_date' = earliest_tweet_date
       /\ (main_pc = "put_setting" /\ output' = "posted"
             /\ earliest_tweet_date = None) =>
            /\ earliest_tweet_date' = Str(tweet.Date)
            /\ tweet.Date = today
            /\ tweet.TweetId \in statuses]_vars

\* A run of a later day has posted and the setting still holds the date of
\* the first Tweet, posted by a run that found no setting.
C17_Witness ==
    /\ main_pc = "done"
    /\ output = "posted"
    /\ today > FirstDay
    /\ tweet.Date = today
    /\ earliest_tweet_date = Str(FirstDay)
    /\ \E item \in tweets_table :
        item.TweetId = NewTweetId(1) /\ item.Date = FirstDay

\* C18: a run that finds i Tweets items for today, i < TWEETS_PER_DAY,
\* queries the Tweets of 7 days ago, of 30 days ago and of the random
\* earlier date with date_entry = i, and the item it stores has
\* DateEntry = i.
C18_SameEntryOfPreviousDays ==
    /\ (main_pc # "idle" /\ lookups # <<>>) =>
        /\ FoundToday < TWEETS_PER_DAY
        /\ \A key \in DOMAIN lookups : lookups[key].date_entry = FoundToday
        /\ lookups.last_week.date = Str(today - 7)
        /\ lookups.last_month.date = Str(today - 30)
        /\ lookups.random.date # None => lookups.random.date.value < today
        /\ \A key \in DOMAIN lookups :
            lookups[key].first # None =>
                /\ lookups[key].first.DateEntry = FoundToday
                /\ Str(lookups[key].first.Date) = lookups[key].date
    /\ (main_pc # "idle" /\ tweet # None) => tweet.DateEntry = FoundToday
    /\ (main_pc = "done" /\ output \in {"posted", "setting_put_failed"}) =>
        \E item \in tweets_table \ before.tweets_table :
            /\ item.DateEntry = FoundToday
            /\ item.Date = today

\* The second Tweet of a day has been posted with the second Tweet of 7
\* days ago in it.
C18_Witness ==
    /\ main_pc = "done"
    /\ output = "posted"
    /\ tweet.DateEntry = 1
    /\ lookups.last_week.first # None
    /\ lookups.last_week.first.DateEntry = 1
    /\ Contains(body, "Last Week")

\* The exit code of a run by the message it wrote.
ExitCode ==
    CASE output = "posted" -> TwitterBotExitCodes.OK
      [] output = "max_tweets" -> TwitterBotExitCodes.MAX_TWEETS_EXCEEDED
      [] output = "no_words" -> TwitterBotExitCodes.NO_WORDS_LEFT
      [] output = "bad_response" -> TwitterBotExitCodes.BAD_DICTIONARY_RESPONSE
      [] output = "no_entry" -> TwitterBotExitCodes.NO_DICTIONARY_ENTRY
      [] output = "tweet_failed" -> TwitterBotExitCodes.TWEET_FAILED
      [] output \in {"tweet_put_failed", "setting_put_failed"} ->
            TwitterBotExitCodes.DB_FAILED
      [] OTHER -> TwitterBotExitCodes.UNHANDLED

Keys(values) == {kv[1] : kv \in values.items}

\* C20: each slot get_previous_tweets returns is empty or holds tweet_id,
\* word and url, with the URL of that tweet_id and the TweetId and Word of
\* the first item its query returned; it is empty when the query returned
\* nothing, when that first item fails the schema, or when its Tweet is not
\* on the platform.
C20_PreviousTweetsSlots ==
    main_pc = "compose" =>
        \A key \in DOMAIN lookups :
            LET slot == previous_tweets[key]
                first == lookups[key].first
            IN  /\ \/ slot = EmptyDict
                   \/ /\ Keys(slot) = {"tweet_id", "word", "url"}
                      /\ Cardinality(slot.items) = 3
                      /\ Get(slot, "url") =
                            "https://twitter.com/" \o TWITTER_USER_USERNAME
                                \o "/statuses/" \o Get(slot, "tweet_id")
                      /\ first # None
                      /\ Get(slot, "tweet_id") = first.TweetId
                      /\ Get(slot, "word") = first.Word
                /\ first = None => slot = EmptyDict
                /\ (first # None /\ DOMAIN first # DOMAIN TweetsSchema) =>
                        slot = EmptyDict
                /\ (first # None /\ first.TweetId \notin statuses) =>
                        slot = EmptyDict
                /\ (key # "random" /\ first = None) =>
                        get_tweets_on_date_entry(
                            tweets_table, lookups[key].date.value,
                            lookups[key].date_entry) = {}

\* get_previous_tweets has returned the random Tweet, an empty slot for the
\* deleted Tweet of 7 days ago and an empty slot for the item of 30 days
\* ago that has no Word.
C20_Witness ==
    /\ main_pc = "compose"
    /\ previous_tweets.random # EmptyDict
    /\ previous_tweets.last_week = EmptyDict
    /\ lookups.last_week.first # None
    /\ previous_tweets.last_month = EmptyDict
    /\ lookups.last_month.first # None
    /\ "Word" \notin DOMAIN lookups.last_month.first

-----------------------------------------------------------------------------
(* get_tweets_on_random_date *)

\* The elements of a sequence.
Range(s) == {s[n] : n \in DOMAIN s}

\* The date was queried and has Tweets of the entry asked for.
HasTweets(d) == get_tweets_on_date_entry(tweets_table, d, date_entry) # {}

\* C21: get_tweets_on_random_date returns [] without a query when the
\* setting is unset or holds today; otherwise it queries at most num_tries
\* dates, all distinct and all of earliest..today-1, it stops at the first
\* queried date that has Tweets of the entry and returns those, and it
\* returns [] when no queried date has any.
C21_RandomDateQueries ==
    random_pc = "returned" =>
        /\ (earliest_tweet_date = None \/ earliest_tweet_date = Str(today))
            => (random_tweets = {} /\ queried = <<>>)
        /\ Len(queried) <= num_tries
        /\ \A a, b \in DOMAIN queried : a # b => queried[a] # queried[b]
        /\ \A n \in DOMAIN queried :
            /\ earliest_tweet_date # None
            /\ queried[n] >= earliest_tweet_date.value
            /\ queried[n] < today
        /\ \A n \in DOMAIN queried : n < Len(queried) => ~HasTweets(queried[n])
        /\ IF \E n \in DOMAIN queried : HasTweets(queried[n])
           THEN random_tweets
                    = get_tweets_on_date_entry(
                          tweets_table, queried[Len(queried)], date_entry)
           ELSE random_tweets = {}

\* Tweets were found at the third date queried while a Tweet of today is
\* stored.
C21_Witness ==
    /\ random_pc = "returned"
    /\ Len(queried) = 3
    /\ random_tweets # {}
    /\ get_tweets_on_date_entry(tweets_table, today, date_entry) # {}

\* What the stepwise call returns is what main() is given by the summary
\* get_tweets_on_random_date of its lookup.
RandomCallRefinesSummary ==
    random_pc = "returned" =>
        [date |-> IF random_tweets = {} THEN None
                  ELSE Str(queried[Len(queried)]),
         tweets |-> random_tweets]
            \in get_tweets_on_random_date(
                    tweets_table, earliest_tweet_date, today, date_entry)

-----------------------------------------------------------------------------
(* The order of the calls of a run *)

\* C22: in a run of main() the body is composed only after
\* get_previous_tweets has returned and before any Tweet is posted in the
\* run, a Tweet is posted only with a composed body and with nothing
\* raised, and a run in which the lookup or the composition raised has
\* posted nothing.
C22_ComposeBetweenLookupAndPost ==
    [][/\ (main_pc = "compose" /\ locals' # locals)
            => /\ lookups # <<>>
               /\ pc = InitLocals.pc
               /\ statuses = before.statuses
               /\ tweet_id_str = ""
               /\ UNCHANGED <<statuses, created>>
       /\ (locals' # locals /\ main_pc' # "idle") => main_pc = "compose"
       /\ (statuses' # statuses \/ created' # created)
            => /\ main_pc = "post"
               /\ lookups # <<>>
               /\ pc = "returned"
               /\ raised = None
       /\ (raised' # None /\ (lookups' = <<>> \/ pc' = "raised"))
            => /\ statuses' = before'.statuses
               /\ tweet_id_str' = ""]_vars

\* The lookup returned previous Tweets, the composition raised ValueError
\* and the run ended with nothing posted.
C22_Witness ==
    /\ main_pc = "done"
    /\ raised = [exception |-> "ValueError"]
    /\ pc = "raised"
    /\ lookups # <<>>
    /\ lookups.last_week.first # None
    /\ statuses = before.statuses
    /\ tweet_id_str = ""

-----------------------------------------------------------------------------
(* The composition as a procedure of six steps *)

\* The references of a call in their order of priority.
References(p) ==
    <<p.previous_tweets.last_week, p.previous_tweets.last_month,
      p.previous_tweets.random>>

\* Step 2: the blocks from the k-th on are admitted against the budget; the
\* result is the budget left and the set of the blocks accepted.
RECURSIVE Admit(_, _, _)
Admit(refs, k, remaining) ==
    IF k > Len(refs) THEN [remaining |-> remaining, accepted |-> {}]
    ELSE IF ~IsUsable(refs[k]) THEN Admit(refs, k + 1, remaining)
    ELSE LET block == PreviousEntry(labels[k], refs[k])
             cost == PreviousCharCount(block, refs[k])
         IN  IF cost > remaining THEN Admit(refs, k + 1, remaining)
             ELSE LET rest == Admit(refs, k + 1, remaining - cost)
                  IN  [remaining |-> rest.remaining,
                       accepted |-> rest.accepted \cup {k}]

\* Step 3: the index of the first definition that keeps the current entry
\* within the maximum, 0 when none does.
FirstFitting(p) ==
    LET fitting == {k \in 1..Len(p.definitions) :
                        MinimalCharCount(p) + 2 + Len(p.definitions[k])
                            <= TWEET_MAX_CHARS}
    IN  IF fitting = {} THEN 0
        ELSE CHOOSE k \in fitting : \A other \in fitting : k <= other

\* Step 3: the current-entry block before its newline, and its cost.
CurrentBlock(p) ==
    LET chosen == FirstFitting(p)
    IN  IF chosen = 0
        THEN [text |-> MinimalEntryText(p), cost |-> MinimalCharCount(p)]
        ELSE [text |-> MinimalEntryText(p) \o ": " \o p.definitions[chosen],
              cost |-> MinimalCharCount(p) + 2 + Len(p.definitions[chosen])]

\* Step 4: accepted blocks are removed from the k-th down while the budget
\* is negative.
RECURSIVE Backoff(_, _, _)
Backoff(refs, k, admitted) ==
    IF k = 0 \/ admitted.remaining >= 0 THEN admitted
    ELSE IF k \notin admitted.accepted THEN Backoff(refs, k - 1, admitted)
    ELSE Backoff(refs, k - 1,
                 [remaining |->
                      admitted.remaining
                          + PreviousCharCount(
                                PreviousEntry(labels[k], refs[k]), refs[k]),
                  accepted |-> admitted.accepted \ {k}])

\* Step 5: the definitions after the chosen one, from the k-th on, that are
\* added to the current entry.
RECURSIVE TopUp(_, _, _)
TopUp(defs, k, remaining) ==
    IF k > Len(defs) THEN ""
    ELSE IF Len(defs[k]) + 2 <= remaining
         THEN "; " \o defs[k] \o TopUp(defs, k + 1, remaining - Len(defs[k]) - 2)
         ELSE TopUp(defs, k + 1, remaining)

\* Step 6: the accepted blocks in their fixed order.
RECURSIVE Blocks(_, _, _)
Blocks(refs, k, accepted) ==
    IF k > Len(refs) THEN ""
    ELSE (IF k \in accepted THEN PreviousEntry(labels[k], refs[k]) ELSE "")
            \o Blocks(refs, k + 1, accepted)

\* The procedure.  With historical_first the blocks are admitted against
\* TWEET_MAX_CHARS and the current entry is charged after them (steps 2, 3,
\* 4); without it the current entry is charged first and the blocks are
\* admitted against what it leaves (steps 3, 2, 4).
Procedure(p, historical_first) ==
    LET refs == References(p)
        current == CurrentBlock(p)
        chosen == FirstFitting(p)
    IN  IF MinimalCharCount(p) > TWEET_MAX_CHARS
        THEN [pc |-> "raised", body |-> ""]
        ELSE IF current.cost + 1 >= TWEET_MAX_CHARS
        THEN [pc |-> "returned", body |-> current.text]
        ELSE LET cost == current.cost + 1
                 admitted ==
                     IF historical_first
                     THEN LET early == Admit(refs, 1, TWEET_MAX_CHARS)
                          IN  [early EXCEPT !.remaining = @ - cost]
                     ELSE Admit(refs, 1, TWEET_MAX_CHARS - cost)
                 kept == Backoff(refs, Len(refs), admitted)
                 further ==
                     IF chosen = 0 THEN ""
                     ELSE TopUp(p.definitions, chosen + 1, kept.remaining)
             IN  [pc |-> "returned",
                  body |-> Strip(current.text \o further \o "\n"
                                   \o Blocks(refs, 1, kept.accepted))]

-----------------------------------------------------------------------------
(* The admission of the historical blocks *)

\* The block of the k-th reference and its accounted cost.
BlockOf(k) == PreviousEntry(labels[k], References(Args)[k])

CostOf(k) == PreviousCharCount(BlockOf(k), References(Args)[k])

\* The accounted cost of the blocks among the first n that are in the list
\* of included entries.
RECURSIVE AcceptedCost(_)
AcceptedCost(n) ==
    IF n = 0 THEN 0
    ELSE AcceptedCost(n - 1)
            + (IF /\ IsUsable(References(Args)[n])
                  /\ BlockOf(n) \in Range(included_entries)
               THEN CostOf(n) ELSE 0)

\* C24: the historical blocks are tried in the order Last Week, Last Month,
\* Random, one a step; the budget at a block's turn is 280 minus the cost
\* of the current entry minus the costs of the blocks accepted; the block
\* is included if and only if it is usable and its cost is at most that
\* budget, and is then charged; a skipped block leaves the budget and the
\* included entries as they are; the next block is tried either way and
\* the loop ends only after the third.
C24_AdmissionInOrder ==
    [][pc = "include_loop" =>
        /\ remaining_chars
            = TWEET_MAX_CHARS - tweet_entries["Now"].char_count
                - AcceptedCost(i)
        /\ IF i < Len(labels)
           THEN /\ pc' = "include_loop"
                /\ i' = i + 1
                /\ IF IsUsable(References(Args)[i + 1])
                        /\ CostOf(i + 1) <= remaining_chars
                   THEN /\ included_entries'
                            = Append(included_entries, BlockOf(i + 1))
                        /\ remaining_chars'
                            = remaining_chars - CostOf(i + 1)
                   ELSE UNCHANGED <<included_entries, remaining_chars>>
           ELSE /\ pc' = "topup_init"
                /\ UNCHANGED <<included_entries, remaining_chars, i>>]_vars

\* Last Week was skipped as too long with the budget left as it was, and
\* Random, tried after it, was included.
C24_Witness ==
    /\ pc = "topup_init"
    /\ IsUsable(previous_tweets.last_week)
    /\ IsUsable(previous_tweets.random)
    /\ CostOf(1) > TWEET_MAX_CHARS - tweet_entries["Now"].char_count
    /\ included_entries = <<tweet_entries["Now"].entry, BlockOf(3)>>
    /\ remaining_chars
        = TWEET_MAX_CHARS - tweet_entries["Now"].char_count - CostOf(3)

-----------------------------------------------------------------------------
(* The newline after the current entry *)

\* C25: when the accounted cost of the current-entry block, with the
\* definition chosen for it if any, plus 1 is at least TWEET_MAX_CHARS, the
\* call returns that block alone, with no newline, historical block or
\* further definition; otherwise the block is given a newline that is
\* charged 1 and the call goes on.
C25_NewlineOrEntryAlone ==
    [][pc = "newline" =>
        LET current == CurrentBlock(Args)
        IN  IF current.cost + 1 >= TWEET_MAX_CHARS
            THEN /\ pc' = "returned"
                 /\ body' = current.text
            ELSE /\ pc' = "previous"
                 /\ tweet_entries'["Now"]
                        = TweetEntry(current.text \o "\n", current.cost + 1)
                 /\ body' = body]_vars

\* An entry that counts 279 with its first definition was returned alone,
\* though a short previous Tweet and a second definition were there.
C25_Witness ==
    /\ pc = "returned"
    /\ CurrentBlock(Args).cost = TWEET_MAX_CHARS - 1
    /\ body = CurrentBlock(Args).text
    /\ \E k \in 1..3 : IsUsable(References(Args)[k])
    /\ Len(definitions) >= 2

-----------------------------------------------------------------------------
(* The remaining budget *)

\* The blocks of generate_tweet_body in which remaining_chars is bound.
Budgeted == {"include_loop", "topup_init", "topup_loop", "finish"}

\* C26: remaining_chars is at least 1 when line 227 initialises it and at
\* least 0 after every later step of the call; the admission loop ends
\* only after the third label, never by its test remaining_chars >= 0; and
\* an entry once included stays included.
C26_BudgetNeverNegative ==
    [][/\ pc = "include_init" => remaining_chars' >= 1
       /\ pc \in Budgeted
            => /\ remaining_chars >= 0
               /\ remaining_chars' >= 0
               /\ Len(included_entries') >= Len(included_entries)
               /\ \A k \in 2..Len(included_entries) :
                    included_entries'[k] = included_entries[k]
       /\ (pc = "include_loop" /\ pc' # "include_loop")
            => i = Len(labels)]_vars

\* The current entry left a budget of 1: the short Last Week did not fit
\* and the empty second definition did not either.
C26_Witness ==
    /\ pc = "returned"
    /\ tweet_entries # <<>>
    /\ "Now" \in DOMAIN tweet_entries
    /\ tweet_entries["Now"].char_count = TWEET_MAX_CHARS - 1
    /\ remaining_chars = 1
    /\ IsUsable(previous_tweets.last_week)
    /\ Len(included_entries) = 1

-----------------------------------------------------------------------------
(* The definitions the top-up pass adds *)

\* C27: the top-up pass changes the entry only by appending a definition
\* whose index is higher than that of the definition chosen in the first
\* pass: never one the first pass passed over as too long, and none when
\* the first pass chose none (definition_index = len(definitions)).
C27_TopUpOnlyLaterDefinitions ==
    [][(pc = "topup_loop" /\ entry' # entry)
            => /\ definition_index < Len(definitions)
               /\ i > definition_index
               /\ entry' = AppendDefinition(entry, definitions[i + 1])]_vars

\* The first pass passed over a definition and chose the second; the
\* top-up pass visited both and added only the third.
C27_Witness ==
    /\ pc = "returned"
    /\ Len(definitions) = 3
    /\ definition_index = 1
    /\ body = CurrentBlock(Args).text \o "; " \o definitions[3]

-----------------------------------------------------------------------------
(* lambda_handler *)

\* The attempt ended with SystemExit and one of the three codes named.
EndedWith(e, names) ==
    /\ e.raised = "SystemExit"
    /\ \E name \in names : e.code = TwitterBotExitCodes[name]

-----------------------------------------------------------------------------
(* The Tweets of a day *)

\* The Tweets the platform created on a day.
PostedOn(day) == {c \in created : c.date = day}

\* C29: on no day has the platform created more than TWEETS_PER_DAY Tweets
\* of the account, whatever the runs of main() of that day ran into.
C29_PostedPerDayWithinQuota ==
    \A c \in created : Cardinality(PostedOn(c.date)) <= TWEETS_PER_DAY

\* Every Tweet of the account was created by a run of main(): the tables
\* were empty when the first run started.
FromEmptyTables ==
    \A c \in created : \E n \in 1..MaxRuns : c.id_str = NewTweetId(n)

\* The items of the Tweets table with the Date of an item.
SameDate(item) == {other \in tweets_table : other.Date = item.Date}

\* C30: when the runs of main() started from empty tables, every item of
\* the Tweets table carries the id of a Tweet the platform created on the
\* Date of the item, and the items of one Date are at most TWEETS_PER_DAY
\* and their DateEntry values are distinct and are exactly 0..n-1.
C30_RecordsOfPostedTweets ==
    FromEmptyTables =>
        \A item \in tweets_table :
            /\ [id_str |-> item.TweetId, date |-> item.Date] \in created
            /\ Cardinality(SameDate(item)) <= TWEETS_PER_DAY
            /\ \A other \in SameDate(item) :
                other # item => other.DateEntry # item.DateEntry
            /\ {other.DateEntry : other \in SameDate(item)}
                = 0..(Cardinality(SameDate(item)) - 1)

\* Three runs of one day from empty tables: the first and the third stored
\* their Tweets as entries 0 and 1, the Tweet of the second was posted and
\* not stored.
C30_Witness ==
    /\ FromEmptyTables
    /\ Cardinality(created) = 3
    /\ Cardinality(tweets_table) = 2
    /\ \A item \in tweets_table : item.Date = today
    /\ \E item \in tweets_table :
        item.DateEntry = 1 /\ item.TweetId = NewTweetId(3)

====
